---------------------------- MODULE Spec2Model ----------------------------
(***************************************************************************)
(* Heuristic field-extraction and classification pipeline of the bank-     *)
(* statement backend: ExcelProcessor (excel_processor.py), PDFProcessor    *)
(* (pdf_processor.py) and TransactionCategorizer                           *)
(* (transaction_categorizer.py).                                           *)
(*                                                                         *)
(* Text is a sequence of one-character strings, so that the regular        *)
(* expressions of the source are computed character by character.  Python  *)
(* None is NoneVal, an optional string is a record [isNone, str].  A       *)
(* float confidence c is the integer 100 * c, an amount of money a is the  *)
(* integer 100 * a (the categorizer's amounts are whole units).            *)
(***************************************************************************)
EXTENDS Integers, Sequences, FiniteSets, TLC

VARIABLES
    party_cache,   \* ExcelProcessor.party_cache : cache key -> (party, confidence)
    calls,         \* direct _extract_party calls since the cache was last empty
    df,            \* the rows handed to _extract_from_dataframe
    outputs,       \* the transaction lists returned by the runs over df so far
    txnIn,         \* the transaction handed to categorize_transaction
    catOut,        \* what categorize_transaction returned for txnIn
    doc,           \* the document handed to an entry point, or the text to _parse_text
    docResult      \* what the entry point returned or raised, or _parse_text returned

vars == <<party_cache, calls, df, outputs, txnIn, catOut, doc, docResult>>

-----------------------------------------------------------------------------
(* Bounds of the model *)

MaxCalls == 2
MaxRows == 2
MaxRuns == 2

-----------------------------------------------------------------------------
(* Characters and Python string primitives *)

UpperSeq == <<"A", "B", "C", "D", "E", "F", "G", "H", "I", "J", "K", "L", "M", "N", "O", "P", "Q", "R", "S", "T", "U", "V", "W", "X", "Y", "Z">>
LowerSeq == <<"a", "b", "c", "d", "e", "f", "g", "h", "i", "j", "k", "l", "m", "n", "o", "p", "q", "r", "s", "t", "u", "v", "w", "x", "y", "z">>
DigitSeq == <<"0", "1", "2", "3", "4", "5", "6", "7", "8", "9">>

SeqRange(s) == {s[i] : i \in 1..Len(s)}

UpperLetters == SeqRange(UpperSeq)
LowerLetters == SeqRange(LowerSeq)
Digits == SeqRange(DigitSeq)
SpaceChars == {" ", "\t"}

\* \w of the re module, for the ASCII characters of the model
IsWordChar(c) == c \in UpperLetters \cup LowerLetters \cup Digits \cup {"_"}

\* \s of the re module
IsSpace(c) == c \in SpaceChars

Min(a, b) == IF a < b THEN a ELSE b

\* s[:n]
Take(s, n) == SubSeq(s, 1, Min(n, Len(s)))

\* s[n:]
Drop(s, n) == SubSeq(s, n + 1, Len(s))

\* the literal lit stands in s at the 1-based position i
MatchAt(s, i, lit) ==
    /\ i >= 1
    /\ i + Len(lit) - 1 <= Len(s)
    /\ SubSeq(s, i, i + Len(lit) - 1) = lit

\* \b between s[p] and s[p+1], p in 0..Len(s)
WordBoundary(s, p) ==
    LET left == p >= 1 /\ IsWordChar(s[p])
        right == p < Len(s) /\ IsWordChar(s[p + 1])
    IN left # right

\* \b lit \b matches in s at position i
WordAt(s, i, lit) ==
    /\ MatchAt(s, i, lit)
    /\ WordBoundary(s, i - 1)
    /\ WordBoundary(s, i + Len(lit) - 1)

\* re.search(r'\b' + lit + r'\b', s)
SearchWord(s, lit) == \E i \in 1..Len(s) : WordAt(s, i, lit)

\* str.upper(), on ASCII
UpperChar(c) ==
    IF c \in LowerLetters
    THEN UpperSeq[CHOOSE i \in 1..Len(LowerSeq) : LowerSeq[i] = c]
    ELSE c

Upper(s) == [i \in 1..Len(s) |-> UpperChar(s[i])]

\* str.lower(), on ASCII
LowerChar(c) ==
    IF c \in UpperLetters
    THEN LowerSeq[CHOOSE i \in 1..Len(UpperSeq) : UpperSeq[i] = c]
    ELSE c

Lower(s) == [i \in 1..Len(s) |-> LowerChar(s[i])]

\* the characters of s at the positions of the set keep, in order (positions lo..hi)
RECURSIVE KeepRange(_, _, _, _)
KeepRange(s, keep, lo, hi) ==
    IF lo > hi THEN <<>>
    ELSE IF lo = hi THEN (IF lo \in keep THEN <<s[lo]>> ELSE <<>>)
    ELSE LET mid == (lo + hi) \div 2
         IN KeepRange(s, keep, lo, mid) \o KeepRange(s, keep, mid + 1, hi)

KeepAt(s, keep) == KeepRange(s, keep, 1, Len(s))

\* str.strip()
Strip(s) ==
    LET solid == {i \in 1..Len(s) : ~IsSpace(s[i])}
    IN IF solid = {} THEN <<>>
       ELSE SubSeq(s, CHOOSE i \in solid : \A j \in solid : i <= j,
                      CHOOSE i \in solid : \A j \in solid : i >= j)

\* the end of the maximal run of characters of the set chars that starts at i
\* (i - 1 when s[i] is not in chars)
RunEnd(s, i, chars) ==
    LET stops == {j \in i..Len(s) : s[j] \notin chars}
    IN IF stops = {} THEN Len(s)
       ELSE (CHOOSE j \in stops : \A k \in stops : j <= k) - 1

\* the longest run of characters of the set chars in s from position i on
RunFrom(s, i, chars) == SubSeq(s, i, RunEnd(s, i, chars))

\* str.split(): the maximal runs of non-whitespace characters, in order
Split(s) ==
    LET starts == {i \in 1..Len(s) :
                      ~IsSpace(s[i]) /\ (i = 1 \/ IsSpace(s[i - 1]))}
        order == KeepAt([i \in 1..Len(s) |-> i], starts)
        stop(i) == LET spaces == {j \in i..Len(s) : IsSpace(s[j])}
                   IN IF spaces = {} THEN Len(s)
                      ELSE (CHOOSE j \in spaces : \A k \in spaces : j <= k) - 1
    IN [k \in 1..Len(order) |-> SubSeq(s, order[k], stop(order[k]))]

\* " ".join(words)
RECURSIVE JoinRange(_, _, _)
JoinRange(words, lo, hi) ==
    IF lo > hi THEN <<>>
    ELSE IF lo = hi THEN words[lo]
    ELSE LET mid == (lo + hi) \div 2
         IN JoinRange(words, lo, mid) \o <<" ">> \o JoinRange(words, mid + 1, hi)

Join(words) == JoinRange(words, 1, Len(words))

\* str.isdigit()
IsDigitStr(w) == w # <<>> /\ \A i \in 1..Len(w) : w[i] \in Digits

\* re.sub(r'\s+', ' ', s): every maximal whitespace run becomes one space
CollapseSpace(s) ==
    KeepAt([i \in 1..Len(s) |-> IF IsSpace(s[i]) THEN " " ELSE s[i]],
           {i \in 1..Len(s) : ~(IsSpace(s[i]) /\ i > 1 /\ IsSpace(s[i - 1]))})

\* the least element of a set of positions, 0 for the empty set
MinOrZero(S) == IF S = {} THEN 0 ELSE CHOOSE i \in S : \A j \in S : i <= j

\* Python None, and an optional string
NoneVal == [isNone |-> TRUE, str |-> <<>>]
Some(s) == [isNone |-> FALSE, str |-> s]

\* truthiness of an optional string: neither None nor ""
Truthy(v) == ~v.isNone /\ v.str # <<>>

-----------------------------------------------------------------------------
(* excel_processor.py : helpers *)

\* the characters normalize_text keeps: [\w\s/@.-]
NormalizeKeeps(c) == IsWordChar(c) \/ IsSpace(c) \/ c \in {"/", "@", ".", "-"}

\* re.sub(r'[^\w\s/@.-]', ' ', s)
BlankOthers(s) == [i \in 1..Len(s) |-> IF NormalizeKeeps(s[i]) THEN s[i] ELSE " "]

\* normalize_text(text) for a string: upper-cased, its whitespace runs collapsed,
\* every other character outside [\w\s/@.-] replaced by a space (after the
\* collapse), and the result stripped
NormalizeStr(s) == Strip(BlankOthers(CollapseSpace(Upper(s))))

\* a spreadsheet cell: None, float NaN, or a string; a date cell may also hold a
\* datetime, given by its day, month and year, or pandas' NaT, the missing value
\* of a datetime column
NoneCell == [kind |-> "none", s |-> <<>>, dmy |-> <<0, 0, 0>>]
NaNCell == [kind |-> "nan", s |-> <<>>, dmy |-> <<0, 0, 0>>]
StrCell(s) == [kind |-> "str", s |-> s, dmy |-> <<0, 0, 0>>]
DateTimeCell(d, m, y) == [kind |-> "datetime", s |-> <<>>, dmy |-> <<d, m, y>>]
NaTCell == [kind |-> "nat", s |-> <<>>, dmy |-> <<0, 0, 0>>]

IsMissing(cell) == cell.kind \in {"none", "nan"}

\* normalize_text(text): "" for None and NaN
normalize_text(cell) == IF IsMissing(cell) THEN <<>> ELSE NormalizeStr(cell.s)

\* the value of a digit string, most significant digit first
DigitValue(c) == (CHOOSE i \in 1..Len(DigitSeq) : DigitSeq[i] = c) - 1

RECURSIVE DigitsValue(_)
DigitsValue(ds) ==
    IF ds = <<>> THEN 0
    ELSE 10 * DigitsValue(SubSeq(ds, 1, Len(ds) - 1)) + DigitValue(ds[Len(ds)])

\* re.sub(r'[^\d.-]', '', s)
KeepAmountChars(s) == SelectSeq(s, LAMBDA c : c \in Digits \cup {".", "-"})

\* float(s) accepts s (a string of digits, '.' and '-' only): an optional leading
\* '-', then digits with at most one '.', at least one digit
UnsignedAccepts(body) ==
    /\ \A i \in 1..Len(body) : body[i] # "-"
    /\ Cardinality({i \in 1..Len(body) : body[i] = "."}) <= 1
    /\ \E i \in 1..Len(body) : body[i] \in Digits

IsNegative(s) == s # <<>> /\ s[1] = "-"

FloatAccepts(s) == UnsignedAccepts(IF IsNegative(s) THEN Tail(s) ELSE s)

\* the value in hundredths of an accepted unsigned body whose '.' is at position
\* dot (Len(body) + 1 when it has none), for at most two decimals
UnsignedValueAt(body, dot) ==
    100 * DigitsValue(SubSeq(body, 1, dot - 1))
        + DigitsValue(Take(SubSeq(body, dot + 1, Len(body)) \o <<"0", "0">>, 2))

DotPosition(body) ==
    IF \E i \in 1..Len(body) : body[i] = "."
    THEN CHOOSE i \in 1..Len(body) : body[i] = "."
    ELSE Len(body) + 1

UnsignedValue(body) == UnsignedValueAt(body, DotPosition(body))

\* float(s) in hundredths, for an accepted s
FloatValue(s) == IF IsNegative(s) THEN 0 - UnsignedValue(Tail(s)) ELSE UnsignedValue(s)

\* safe_float(val), default 0.0
safe_float(s) == IF FloatAccepts(s) THEN FloatValue(s) ELSE 0

\* ExcelProcessor._parse_amount(val), in hundredths
ParseAmount(cell) ==
    IF IsMissing(cell) THEN 0 ELSE safe_float(KeepAmountChars(cell.s))

\* ---- dates ----

MonthNames ==
    << <<"J", "A", "N">>, <<"F", "E", "B">>, <<"M", "A", "R">>, <<"A", "P", "R">>, <<"M", "A", "Y">>, <<"J", "U", "N">>,
       <<"J", "U", "L">>, <<"A", "U", "G">>, <<"S", "E", "P">>, <<"O", "C", "T">>, <<"N", "O", "V">>, <<"D", "E", "C">> >>

\* the pieces of s between the occurrences of the separator sep
RECURSIVE SplitOn(_, _, _, _)
SplitOn(s, sep, i, piece) ==
    IF i > Len(s) THEN <<piece>>
    ELSE IF s[i] = sep
         THEN <<piece>> \o SplitOn(s, sep, i + 1, <<>>)
         ELSE SplitOn(s, sep, i + 1, Append(piece, s[i]))

\* strptime's %d, %m, %Y, %y and %b on one field; -1 when the field does not match
DayDigits(f) == IF Len(f) = 2 /\ f[1] = " " THEN Tail(f) ELSE f

FieldDay(f) ==
    IF IsDigitStr(DayDigits(f)) /\ Len(f) \in 1..2 /\ DigitsValue(DayDigits(f)) \in 1..31
    THEN DigitsValue(DayDigits(f)) ELSE -1

FieldMonth(f) ==
    IF IsDigitStr(f) /\ Len(f) \in 1..2 /\ DigitsValue(f) \in 1..12
    THEN DigitsValue(f) ELSE -1

FieldYear4(f) == IF IsDigitStr(f) /\ Len(f) = 4 THEN DigitsValue(f) ELSE -1

FieldYear2(f) ==
    IF IsDigitStr(f) /\ Len(f) = 2
    THEN (IF DigitsValue(f) <= 68 THEN 2000 ELSE 1900) + DigitsValue(f)
    ELSE -1

FieldMonthName(f) ==
    IF \E m \in 1..12 : MonthNames[m] = Upper(f)
    THEN CHOOSE m \in 1..12 : MonthNames[m] = Upper(f)
    ELSE -1

IsLeap(y) == y % 4 = 0 /\ (y % 100 # 0 \/ y % 400 = 0)

DaysIn(m, y) ==
    IF m = 2 THEN (IF IsLeap(y) THEN 29 ELSE 28)
    ELSE IF m \in {4, 6, 9, 11} THEN 30 ELSE 31

\* datetime(y, m, d) exists
ValidDate(d, m, y) == d >= 1 /\ m \in 1..12 /\ y >= 1 /\ d <= DaysIn(m, y)

\* str(n), and its zero-padding to w digits
RECURSIVE NatDigits(_)
NatDigits(n) == IF n < 10 THEN <<DigitSeq[n + 1]>>
                ELSE NatDigits(n \div 10) \o <<DigitSeq[(n % 10) + 1]>>

RECURSIVE ZeroPad(_, _)
ZeroPad(ds, w) == IF Len(ds) >= w THEN ds ELSE ZeroPad(<<"0">> \o ds, w)

\* datetime.strftime('%d/%m/%Y')
FormatDate(d, m, y) ==
    ZeroPad(NatDigits(d), 2) \o <<"/">> \o ZeroPad(NatDigits(m), 2)
        \o <<"/">> \o ZeroPad(NatDigits(y), 4)

\* ExcelProcessor.date_formats: separator, and what the three fields are
date_formats ==
    << [sep |-> "-", fields |-> <<"d", "b", "Y">>],
       [sep |-> "-", fields |-> <<"d", "b", "y">>],
       [sep |-> "/", fields |-> <<"d", "m", "Y">>],
       [sep |-> "-", fields |-> <<"d", "m", "Y">>],
       [sep |-> "-", fields |-> <<"Y", "m", "d">>] >>

Field(kind, f) ==
    CASE kind = "d" -> FieldDay(f)
      [] kind = "m" -> FieldMonth(f)
      [] kind = "b" -> FieldMonthName(f)
      [] kind = "Y" -> FieldYear4(f)
      [] kind = "y" -> FieldYear2(f)

\* the position in fmt of the field whose directive is one of kinds
FieldPos(fmt, kinds) == CHOOSE i \in 1..3 : fmt.fields[i] \in kinds

\* the date of three parsed fields v, as [ok, d, m, y]
DateOfFields(fmt, v) ==
    [ok |-> /\ \A i \in 1..3 : v[i] # -1
            /\ ValidDate(v[FieldPos(fmt, {"d"})], v[FieldPos(fmt, {"m", "b"})],
                         v[FieldPos(fmt, {"Y", "y"})]),
     d |-> v[FieldPos(fmt, {"d"})],
     m |-> v[FieldPos(fmt, {"m", "b"})],
     y |-> v[FieldPos(fmt, {"Y", "y"})]]

StrptimeParts(parts, fmt) ==
    IF Len(parts) # 3 THEN [ok |-> FALSE, d |-> 0, m |-> 0, y |-> 0]
    ELSE DateOfFields(fmt, [i \in 1..3 |-> Field(fmt.fields[i], parts[i])])

\* datetime.strptime(s, fmt): the whole of s must match the three fields
Strptime(s, fmt) == StrptimeParts(SplitOn(s, fmt.sep, 1, <<>>), fmt)

\* the first format of date_formats, from the i-th on, that parses s; else s itself
RECURSIVE TryFormats(_, _)
FormatOrTryNext(s, i, r) ==
    IF r.ok THEN FormatDate(r.d, r.m, r.y) ELSE TryFormats(s, i + 1)

TryFormats(s, i) ==
    IF i > Len(date_formats) THEN s
    ELSE FormatOrTryNext(s, i, Strptime(s, date_formats[i]))

\* lines 226-227: NaT is an instance of datetime whose strftime raises ValueError
ParseDateRaises(cell) == cell.kind = "nat"

\* ExcelProcessor._parse_date(val), for a value on which it does not raise
ParseDate(cell) ==
    IF IsMissing(cell) THEN NoneVal
    ELSE IF cell.kind = "datetime" THEN Some(FormatDate(cell.dmy[1], cell.dmy[2], cell.dmy[3]))
    ELSE Some(TryFormats(normalize_text(cell), 1))

-----------------------------------------------------------------------------
(* excel_processor.py : party extraction *)

CacheKeyLen == 80

ConfKnownMerchant == 95
ConfUpiHandle == 85
ConfPreposition == 70
ConfFallback == 40
ConfNoParty == 10
ConfEmpty == 0

\* ExcelProcessor.business_suffixes, in list order
business_suffixes ==
    << <<"T", "R", "A", "D", "E", "R", "S">>, <<"A", "G", "E", "N", "C", "I", "E", "S">>, <<"E", "N", "T", "E", "R", "P", "R", "I", "S", "E", "S">>, <<"S", "E", "R", "V", "I", "C", "E", "S">>, <<"S", "O", "L", "U", "T", "I", "O", "N", "S">>,
       <<"P", "V", "T">>, <<"L", "T", "D">>, <<"L", "I", "M", "I", "T", "E", "D">>, <<"C", "O", "R", "P">>, <<"C", "O", "M", "P", "A", "N", "Y">>, <<"C", "O">>, <<"G", "R", "O", "U", "P">>,
       <<"B", "A", "N", "K">>, <<"P", "A", "Y", "M", "E", "N", "T", "S">>, <<"F", "I", "N", "T", "E", "C", "H">> >>

\* ExcelProcessor.known_merchants, in dict (insertion) order
known_merchants ==
    << [pat |-> <<"A", "M", "A", "Z", "O", "N">>, name |-> <<"A", "M", "A", "Z", "O", "N">>],
       [pat |-> <<"F", "L", "I", "P", "K", "A", "R", "T">>, name |-> <<"F", "L", "I", "P", "K", "A", "R", "T">>],
       [pat |-> <<"S", "W", "I", "G", "G", "Y">>, name |-> <<"S", "W", "I", "G", "G", "Y">>],
       [pat |-> <<"Z", "O", "M", "A", "T", "O">>, name |-> <<"Z", "O", "M", "A", "T", "O">>],
       [pat |-> <<"P", "A", "Y", "T", "M">>, name |-> <<"P", "A", "Y", "T", "M">>],
       [pat |-> <<"P", "H", "O", "N", "E", "P", "E">>, name |-> <<"P", "H", "O", "N", "E", "P", "E">>],
       [pat |-> <<"G", "P", "A", "Y">>, name |-> <<"G", "O", "O", "G", "L", "E", " ", "P", "A", "Y">>],
       [pat |-> <<"B", "H", "I", "M">>, name |-> <<"B", "H", "I", "M">>],
       [pat |-> <<"U", "B", "E", "R">>, name |-> <<"U", "B", "E", "R">>],
       [pat |-> <<"O", "L", "A">>, name |-> <<"O", "L", "A">>],
       [pat |-> <<"N", "E", "T", "F", "L", "I", "X">>, name |-> <<"N", "E", "T", "F", "L", "I", "X">>],
       [pat |-> <<"S", "P", "O", "T", "I", "F", "Y">>, name |-> <<"S", "P", "O", "T", "I", "F", "Y">>],
       [pat |-> <<"I", "R", "C", "T", "C">>, name |-> <<"I", "R", "C", "T", "C">>] >>

\* re.sub(r'\bword\b', '', s): every occurrence of the whole word is removed (two
\* occurrences cannot overlap, each has a word boundary on both sides)
RemoveWord(s, word) ==
    KeepAt(s, {p \in 1..Len(s) :
                  ~\E i \in 1..Len(s) : WordAt(s, i, word) /\ p \in i..(i + Len(word) - 1)})

RECURSIVE RemoveSuffixes(_, _)
RemoveSuffixes(name, i) ==
    IF i > Len(business_suffixes) THEN name
    ELSE RemoveSuffixes(RemoveWord(name, business_suffixes[i]), i + 1)

\* re.sub(r'[^\w\s]', ' ', s)
PunctToSpace(s) ==
    [i \in 1..Len(s) |-> IF IsWordChar(s[i]) \/ IsSpace(s[i]) THEN s[i] ELSE " "]

\* ExcelProcessor._clean_party(name): None for an empty name, else the name without
\* the business suffixes, punctuation turned to spaces, whitespace collapsed
clean_party(name) ==
    IF name = <<>> THEN NoneVal
    ELSE Some(Strip(Join(Split(PunctToSpace(RemoveSuffixes(name, 1))))))

\* the first known merchant, in table order, whose pattern is found; 0 if none
MerchantIndex(narration) ==
    MinOrZero({i \in 1..Len(known_merchants) :
                  SearchWord(narration, known_merchants[i].pat)})

\* [A-Z0-9]
HandleChars == UpperLetters \cup Digits

\* re.search(r'@([A-Z0-9]+)', s): the leftmost '@' followed by a handle character;
\* 0 if none
HandleStart(s) ==
    MinOrZero({i \in 1..Len(s) : s[i] = "@" /\ i < Len(s) /\ s[i + 1] \in HandleChars})

\* [A-Z\s]
NameChars == UpperLetters \cup SpaceChars

PrepositionWords == << <<"T", "O">>, <<"F", "R", "O", "M">>, <<"B", "Y">> >>

\* which of TO, FROM, BY stands at position i after a word boundary; 0 if none
KeywordAt(s, i) ==
    MinOrZero({k \in 1..Len(PrepositionWords) :
                  WordBoundary(s, i - 1) /\ MatchAt(s, i, PrepositionWords[k])})

\* \s+([A-Z][A-Z\s]{2,}) from position after on, the whitespace run ending before g:
\* the position at which group 2 starts, or 0.  \s+ takes the whole whitespace run
\* (giving whitespace back cannot put a letter next), then come a letter and at
\* least two more name characters
GroupStartAt(s, after, g) ==
    IF /\ g > after
       /\ g + 2 <= Len(s)
       /\ s[g] \in UpperLetters
       /\ s[g + 1] \in NameChars
       /\ s[g + 2] \in NameChars
    THEN g ELSE 0

GroupStart(s, after) == GroupStartAt(s, after, RunEnd(s, after, SpaceChars) + 1)

\* r'\b(TO|FROM|BY)\s+([A-Z][A-Z\s]{2,})' tried at position i: the position at
\* which group 2 starts, or 0
PrepositionAt(s, i) ==
    IF KeywordAt(s, i) = 0 THEN 0
    ELSE GroupStart(s, i + Len(PrepositionWords[KeywordAt(s, i)]))

\* group 2 of the match that starts at position i (0: no match), as [found, name]
PrepositionGroupAt(s, i) ==
    IF i = 0 THEN [found |-> FALSE, name |-> <<>>]
    ELSE [found |-> TRUE, name |-> RunFrom(s, PrepositionAt(s, i), NameChars)]

\* re.search of the prepositional pattern: the leftmost match
PrepositionGroup(s) ==
    PrepositionGroupAt(s, MinOrZero({i \in 1..Len(s) : PrepositionAt(s, i) # 0}))

\* the words of the fallback strategy: longer than 3 characters, not all digits
MeaningfulWords(narration) ==
    SelectSeq(Split(narration), LAMBDA w : Len(w) > 3 /\ ~IsDigitStr(w))

Result(party, conf) == [party |-> party, confidence |-> conf]

\* lines 276-282: the fallback, from the party of the meaningful words
FallbackResult(party) ==
    Result(party, IF Truthy(party) THEN ConfFallback ELSE ConfNoParty)

FallbackStrategy(words) ==
    FallbackResult(IF words # <<>> THEN clean_party(Join(Take(words, 3))) ELSE NoneVal)

\* lines 269-274: TO / FROM patterns, g the search result
PrepositionStrategy(narration, g) ==
    IF g.found THEN Result(clean_party(g.name), ConfPreposition)
    ELSE FallbackStrategy(MeaningfulWords(narration))

\* lines 262-267: UPI handles, h the position of the '@' found
HandleStrategy(narration, h) ==
    IF h # 0 THEN Result(Some(RunFrom(narration, h + 1, HandleChars)), ConfUpiHandle)
    ELSE PrepositionStrategy(narration, PrepositionGroup(narration))

\* a chain that tries the UPI handle before the known merchants
MerchantStrategyAfterHandle(narration, m) ==
    IF HandleStart(narration) # 0
    THEN Result(Some(RunFrom(narration, HandleStart(narration) + 1, HandleChars)),
                ConfUpiHandle)
    ELSE IF m # 0 THEN Result(Some(known_merchants[m].name), ConfKnownMerchant)
    ELSE PrepositionStrategy(narration, PrepositionGroup(narration))

\* lines 256-260: known merchants, m the index of the first one found
MerchantStrategy(narration, m) ==
    IF m # 0 THEN Result(Some(known_merchants[m].name), ConfKnownMerchant)
    ELSE HandleStrategy(narration, HandleStart(narration))

\* _extract_party, lines 256-282: the strategy chain run on a cache miss
StrategyChain(narration) == MerchantStrategy(narration, MerchantIndex(narration))

\* a key that is the whole narration
CacheKeyWhole(narration) == narration

\* line 252: cache_key = narration[:80]
CacheKey(narration) == Take(narration, CacheKeyLen)

\* ExcelProcessor.__init__, line 45: the empty party cache
EmptyCache == [k \in {} |-> Result(NoneVal, ConfEmpty)]

\* a miss that stores the party found without its confidence
StoreMissPartyOnly(cache, key, found) ==
    [result |-> found, cache |-> (key :> Result(found.party, ConfEmpty)) @@ cache]

\* line 281: a miss, the result found is stored under the key and returned
StoreMiss(cache, key, found) == [result |-> found, cache |-> (key :> found) @@ cache]

\* ExcelProcessor._extract_party(narration) on an instance whose cache is `cache`:
\* what it returns and the cache it leaves
ExtractParty(cache, narration) ==
    IF narration = <<>>
    THEN [result |-> Result(NoneVal, ConfEmpty), cache |-> cache]
    ELSE IF CacheKey(narration) \in DOMAIN cache
    THEN [result |-> cache[CacheKey(narration)], cache |-> cache]
    ELSE StoreMiss(cache, CacheKey(narration), StrategyChain(narration))

-----------------------------------------------------------------------------
(* excel_processor.py : row parser *)

UpiWords == { <<"U", "P", "I">>, <<"@">>, <<"G", "P", "A", "Y">>, <<"P", "H", "O", "N", "E", "P", "E">>, <<"P", "A", "Y", "T", "M">>, <<"B", "H", "I", "M">> }
TransferWords == { <<"N", "E", "F", "T">>, <<"I", "M", "P", "S">>, <<"R", "T", "G", "S">>, <<"T", "R", "A", "N", "S", "F", "E", "R">>, <<"T", "R", "F">> }

\* re.search(r'\b(w1|w2|...)\b', s)
SearchAnyWord(s, words) == \E w \in words : SearchWord(s, w)

\* round(confidence, 3): the confidences are multiples of 0.01
Round3(conf) == conf

\* line 184: the row is skipped
RowSkipped(credit, debit, amount_col, description) ==
    credit = debit /\ debit = amount_col /\ amount_col = 0 /\ description = <<>>

\* lines 187-192: the signed amount
SignedAmount(credit, debit, amount_col) ==
    IF credit > 0 THEN credit
    ELSE IF debit > 0 THEN 0 - debit
    ELSE amount_col

\* lines 194-211: the transaction appended for a row that is not skipped, ep what
\* _extract_party returned
EmitRow(date, description, credit, debit, balance, amount_col, ep, filename, sheet_name) ==
    [emitted |-> TRUE,
     txn |-> [date |-> date,
              description |-> description,
              amount |-> SignedAmount(credit, debit, amount_col),
              credit |-> credit,
              debit |-> debit,
              balance |-> balance,
              party |-> ep.result.party,
              detected_party |-> ep.result.party,
              party_confidence |-> Round3(ep.result.confidence),
              source |-> "excel",
              source_file |-> filename,
              source_sheet |-> sheet_name,
              is_upi |-> SearchAnyWord(description, UpiWords),
              is_transfer |-> SearchAnyWord(description, TransferWords)],
     cache |-> ep.cache]

\* a row loop that skips a row only when its date and balance are absent too
AssembleRowDateBalance(cache, date, description, credit, debit, balance, amount_col, filename, sheet_name) ==
    IF RowSkipped(credit, debit, amount_col, description) /\ ~Truthy(date) /\ balance = 0
    THEN [emitted |-> FALSE, txn |-> NoneVal, cache |-> cache]
    ELSE EmitRow(date, description, credit, debit, balance, amount_col,
                 ExtractParty(cache, description), filename, sheet_name)

\* lines 184-211, from the parsed fields of the row
AssembleRow(cache, date, description, credit, debit, balance, amount_col, filename, sheet_name) ==
    IF RowSkipped(credit, debit, amount_col, description)
    THEN [emitted |-> FALSE, txn |-> NoneVal, cache |-> cache]
    ELSE EmitRow(date, description, credit, debit, balance, amount_col,
                 ExtractParty(cache, description), filename, sheet_name)

\* the body of the loop of _extract_from_dataframe for one row, lines 175-214:
\* whether a transaction is appended, the transaction, and the cache left.  When
\* _parse_date raises at line 176, the handler at lines 213-214 skips the row
ProcessRow(cache, row, filename, sheet_name) ==
    IF ParseDateRaises(row.date)
    THEN [emitted |-> FALSE, txn |-> NoneVal, cache |-> cache]
    ELSE
    AssembleRow(cache, ParseDate(row.date), normalize_text(row.description),
                ParseAmount(row.credit), ParseAmount(row.debit),
                ParseAmount(row.balance), ParseAmount(row.amount),
                filename, sheet_name)

\* the transactions so far and the cache, after the row result r
AfterRow(acc, r) ==
    [transactions |-> IF r.emitted THEN Append(acc.transactions, r.txn)
                      ELSE acc.transactions,
     cache |-> r.cache]

\* the loop of _extract_from_dataframe over rows i.. of df
RECURSIVE ExtractRowsFrom(_, _, _, _, _)
ExtractRowsFrom(acc, rows, i, filename, sheet_name) ==
    IF i > Len(rows) THEN acc
    ELSE ExtractRowsFrom(
             AfterRow(acc, ProcessRow(acc.cache, rows[i], filename, sheet_name)),
             rows, i + 1, filename, sheet_name)

\* ExcelProcessor._extract_from_dataframe(df, filename, sheet_name) on an instance
\* whose cache is `cache`: the transactions returned and the cache left
ExtractFromDataframe(cache, rows, filename, sheet_name) ==
    ExtractRowsFrom([transactions |-> <<>>, cache |-> cache], rows, 1,
                    filename, sheet_name)

-----------------------------------------------------------------------------
(* Inputs of the party-cache and row specifications *)

\* a reference of n characters, digits and one closing space: no strategy of the
\* party chain reads anything from it
RefPad(n) == [i \in 1..n |-> IF i = n THEN " " ELSE "9"]

PadLens == {CacheKeyLen - 3, CacheKeyLen}

NarrationTails ==
    { <<"A", "M", "A", "Z", "O", "N", " ", "P", "A", "Y">>, <<"P", "A", "Y", "@", "Y", "B", "L">>, <<"T", "O", " ", "R", "A", "V", "I", " ", "K", "U", "M", "A", "R">>, <<"T", "O", " ", "B", "A", "N", "K", " ", "L", "T", "D">>,
      <<"N", "E", "F", "T", " ", "1", "2", "3", "4", "5">>, <<"1", "2", "3", " ", "4", "5">>, <<>>,
      <<"T", "O", " ", "A", "M", "A", "Z", "O", "N", "@", "Y", "B", "L">>, <<"T", "O", " ", "R", "A", "V", "I", "@", "Y", "B", "L">>, <<"A", "T", "M", " ", "W", "D", "L", " ", "C", "A", "S", "H", " ", "1", "2", "3", "4", "5">>, <<"L", "I", "M", "I", "T", "E", "D", " ", "C", "O", "M", "P", "A", "N", "Y">> }

\* the tails that are also tried behind a reference as long as the cache key
PaddedTails == { <<"A", "M", "A", "Z", "O", "N", " ", "P", "A", "Y">>, <<"P", "A", "Y", "@", "Y", "B", "L">>, <<"T", "O", " ", "R", "A", "V", "I", " ", "K", "U", "M", "A", "R">>, <<"T", "O", " ", "B", "A", "N", "K", " ", "L", "T", "D">> }

\* the normalized narrations _extract_party is called with
Narrations ==
    NarrationTails \cup {RefPad(n) \o t : n \in PadLens, t \in PaddedTails}

Row(date, description, credit, debit, balance, amount) ==
    [date |-> date, description |-> description, credit |-> credit,
     debit |-> debit, balance |-> balance, amount |-> amount]

DateCells == { NoneCell, StrCell(<<"0", "1", "-", "J", "a", "n", "-", "2", "0", "2", "4">>), NaTCell }

DescriptionCells ==
    { NoneCell, StrCell(<<"P", "a", "y", "m", "e", "n", "t", " ", "C", "R", " ", "t", "o", " ", "M", "e", "r", "c", "h", "a", "n", "t", " ", "D", "R">>), StrCell(<<"G", "r", "o", "c", "e", "r", "y", ",", " ", "s", "t", "o", "r", "e">>) }

CreditCells == { NoneCell, StrCell(<<"0", ".", "0", "0">>), StrCell(<<"5", "0", "0", ".", "0", "0">>), StrCell(<<"-", "2", "5", "0">>) }

DebitCells == { NoneCell, StrCell(<<"R", "s", " ", "1", ",", "2", "3", "4", ".", "5", "0">>), StrCell(<<"-", "2", "5", "0">>), StrCell(<<"1", "2", "-", "3">>) }

BalanceCells == { NaNCell, StrCell(<<"1", "0", ",", "5", "0", "0", ".", "0", "0">>) }

AmountCells == { NoneCell, StrCell(<<"0", ".", "0", "0">>), StrCell(<<"5", "0", "0", ".", "0", "0">>) }

\* every combination of cell values of one row
CellRows ==
    { Row(d, n, c, b, l, a) : d \in DateCells, n \in DescriptionCells,
                              c \in CreditCells, b \in DebitCells,
                              l \in BalanceCells, a \in AmountCells }

\* rows whose narrations share, or do not share, their first 80 characters
NarrationRows ==
    { Row(DateTimeCell(5, 3, 2024), n, StrCell(<<"4", "9", "9", ".", "0", "0">>), NoneCell, NoneCell, NoneCell) :
        n \in { StrCell(RefPad(CacheKeyLen) \o <<"A", "M", "A", "Z", "O", "N", " ", "P", "A", "Y">>),
                StrCell(RefPad(CacheKeyLen) \o <<"T", "O", " ", "R", "A", "V", "I", " ", "K", "U", "M", "A", "R">>),
                StrCell(<<"u", "p", "i", "/", "a", "m", "a", "z", "o", "n", " ", "p", "a", "y", "/", "r", "e", "f", "1", "2", "3">>) } }
    \cup { Row(NoneCell, NoneCell, NoneCell, NoneCell, NoneCell, NoneCell) }

RECURSIVE SeqsUpTo(_, _)
SeqsUpTo(S, n) ==
    IF n = 0 THEN {<<>>}
    ELSE LET shorter == SeqsUpTo(S, n - 1)
         IN shorter \cup {Append(s, x) : s \in shorter, x \in S}

DataFrames == {<<r>> : r \in CellRows} \cup SeqsUpTo(NarrationRows, MaxRows)

FileName == "statement.xlsx"
SheetName == "Sheet1"

-----------------------------------------------------------------------------
(* The party cache under direct calls *)

IdleTxn == [description |-> <<>>, credit |-> 0, debit |-> 0]
IdleDoc == [kind |-> "none"]

Init ==
    /\ party_cache = EmptyCache
    /\ calls = <<>>
    /\ df = <<>>
    /\ outputs = <<>>
    /\ txnIn = IdleTxn
    /\ catOut = NoneVal
    /\ doc = IdleDoc
    /\ docResult = NoneVal

\* a call of _extract_party(narration)
ExtractPartyCall(narration) ==
    /\ Len(calls) < MaxCalls
    /\ \E r \in {ExtractParty(party_cache, narration)} :
          /\ party_cache' = r.cache
          /\ calls' = Append(calls, [narration |-> narration, result |-> r.result])
    /\ UNCHANGED <<df, outputs, txnIn, catOut, doc, docResult>>

\* ExcelProcessor.clear_cache()
ClearCache ==
    /\ party_cache' = EmptyCache
    /\ calls' = <<>>
    /\ UNCHANGED <<df, outputs, txnIn, catOut, doc, docResult>>

Next ==
    \/ \E n \in Narrations : ExtractPartyCall(n)
    \/ ClearCache

Spec == Init /\ [][Next]_vars

-----------------------------------------------------------------------------
(* The row parser run over one input *)

InitExcel ==
    /\ party_cache = EmptyCache
    /\ calls = <<>>
    /\ df \in DataFrames
    /\ outputs = <<>>
    /\ txnIn = IdleTxn
    /\ catOut = NoneVal
    /\ doc = IdleDoc
    /\ docResult = NoneVal

\* _extract_from_dataframe(df, filename, sheet_name) on the current instance
RunExtract ==
    /\ Len(outputs) < MaxRuns
    /\ \E r \in {ExtractFromDataframe(party_cache, df, FileName, SheetName)} :
          /\ party_cache' = r.cache
          /\ outputs' = Append(outputs, [transactions |-> r.transactions,
                                         fresh |-> party_cache = EmptyCache])
    /\ UNCHANGED <<calls, df, txnIn, catOut, doc, docResult>>

\* ExcelProcessor(): the next run uses a new instance
NewProcessor ==
    /\ party_cache' = EmptyCache
    /\ UNCHANGED <<calls, df, outputs, txnIn, catOut, doc, docResult>>

NextExcel ==
    \/ RunExtract
    \/ NewProcessor

SpecExcel == InitExcel /\ [][NextExcel]_vars


-----------------------------------------------------------------------------
(* Properties of the party cache and of the row parser *)

\* C1: among the calls of _extract_party made on one instance since the last
\* clear_cache, any two whose narrations have the same first 80 characters
\* returned the same (party, confidence) pair.
C1_SamePrefixSameResult ==
    \A i \in DOMAIN calls : \A j \in DOMAIN calls :
        Take(calls[i].narration, CacheKeyLen) = Take(calls[j].narration, CacheKeyLen)
            => calls[i].result = calls[j].result

\* two different narrations with the same first 80 characters were passed, and the
\* strategy chain alone tells them apart
C1_Witness ==
    \E i \in DOMAIN calls : \E j \in DOMAIN calls :
        /\ i < j
        /\ calls[i].narration # calls[j].narration
        /\ Take(calls[i].narration, CacheKeyLen) = Take(calls[j].narration, CacheKeyLen)
        /\ StrategyChain(calls[i].narration) # StrategyChain(calls[j].narration)
        /\ calls[i].result = calls[j].result

\* the call found its key in the cache: an earlier call since the last
\* clear_cache had the same first 80 characters
CacheHit(i) ==
    \E j \in 1..(i - 1) :
        Take(calls[j].narration, CacheKeyLen) = Take(calls[i].narration, CacheKeyLen)

HasKnownMerchant(n) == \E m \in DOMAIN known_merchants : SearchWord(n, known_merchants[m].pat)

HasHandle(n) == \E p \in 1..(Len(n) - 1) : n[p] = "@" /\ n[p + 1] \in HandleChars

HasPreposition(n) == \E p \in 1..Len(n) : PrepositionAt(n, p) # 0

\* C11: a call that misses the cache returns the result of the first strategy
\* that matches, in the order known merchant, UPI handle, TO/FROM/BY pattern,
\* fallback, with confidence 0.95, 0.85, 0.70 and 0.40 or 0.10; a narration
\* holding a known brand as a whole word gives that brand's canonical name with
\* 0.95 even when it also holds an '@' handle or a TO/FROM phrase.
C11_StrategyOrder ==
    \A i \in DOMAIN calls :
        (calls[i].narration # <<>> /\ ~CacheHit(i)) =>
            /\ HasKnownMerchant(calls[i].narration) =>
                   /\ calls[i].result.confidence = ConfKnownMerchant
                   /\ \E m \in DOMAIN known_merchants :
                          /\ SearchWord(calls[i].narration, known_merchants[m].pat)
                          /\ calls[i].result.party = Some(known_merchants[m].name)
            /\ (~HasKnownMerchant(calls[i].narration) /\ HasHandle(calls[i].narration)) =>
                   /\ calls[i].result.confidence = ConfUpiHandle
                   /\ Truthy(calls[i].result.party)
                   /\ \A p \in DOMAIN calls[i].result.party.str :
                          calls[i].result.party.str[p] \in HandleChars
            /\ (/\ ~HasKnownMerchant(calls[i].narration)
                /\ ~HasHandle(calls[i].narration)
                /\ HasPreposition(calls[i].narration)) =>
                   calls[i].result.confidence = ConfPreposition
            /\ (/\ ~HasKnownMerchant(calls[i].narration)
                /\ ~HasHandle(calls[i].narration)
                /\ ~HasPreposition(calls[i].narration)) =>
                   calls[i].result.confidence \in {ConfFallback, ConfNoParty}

\* a first call whose narration holds a known brand, an '@' handle and a TO phrase
C11_Witness ==
    /\ Len(calls) >= 1
    /\ HasKnownMerchant(calls[1].narration)
    /\ HasHandle(calls[1].narration)
    /\ HasPreposition(calls[1].narration)
    /\ calls[1].result = Result(Some(<<"A", "M", "A", "Z", "O", "N">>), ConfKnownMerchant)

\* the tokens the claim names as carrying no party
SkipListTokens ==
    { <<"U", "P", "I">>, <<"A", "T", "M">>, <<"W", "D", "L">>, <<"D", "E", "P", "O", "S", "I", "T">>, <<"C", "A", "S", "H">>, <<"C", "R">>, <<"D", "R">>, <<"T", "R", "A", "N", "S", "F", "E", "R">>, <<"P", "A", "Y", "M", "E", "N", "T">>, <<"B", "A", "N", "K">> }

\* the narration is made only of numbers and of such tokens
OnlyNumericOrSkipList(n) ==
    /\ n # <<>>
    /\ \A k \in DOMAIN Split(n) : IsDigitStr(Split(n)[k]) \/ Split(n)[k] \in SkipListTokens

\* C12: a narration made only of numeric and skip-list tokens gives party None
\* with confidence 0.1; every result with confidence 0.40 or more carries a
\* party that is neither None nor empty; confidence 0.10 comes only with party
\* None.
C12_NoPartyOnlyWithLowConfidence ==
    \A i \in DOMAIN calls :
        /\ (OnlyNumericOrSkipList(calls[i].narration) /\ ~CacheHit(i)) =>
               calls[i].result = Result(NoneVal, ConfNoParty)
        /\ calls[i].result.confidence >= ConfFallback => Truthy(calls[i].result.party)
        /\ calls[i].result.confidence = ConfNoParty => calls[i].result.party = NoneVal

\* what a new instance returns for the description alone
AloneResult(description) == ExtractParty(EmptyCache, description).result

\* C2: the party and party_confidence of every emitted transaction are those a
\* new instance, its cache empty, computes for that row's description alone,
\* whatever rows were processed before it.
C2_RowsIndependent ==
    \A i \in DOMAIN outputs : \A k \in DOMAIN outputs[i].transactions :
        /\ outputs[i].transactions[k].party
               = AloneResult(outputs[i].transactions[k].description).party
        /\ outputs[i].transactions[k].party_confidence
               = Round3(AloneResult(outputs[i].transactions[k].description).confidence)

\* C3: all runs over the same rows return the same sequence of transactions, the
\* first run being made on a new instance and a later one either on a new instance
\* or on the instance the earlier run left, with its cache.
C3_RunsIdentical ==
    \A i \in DOMAIN outputs : \A j \in DOMAIN outputs :
        outputs[i].transactions = outputs[j].transactions

\* a second run on the instance the first run left, over rows of which two share
\* their cache key, and a second run on a new instance
C3_Witness ==
    /\ Len(outputs) >= 2
    /\ outputs[1].fresh
    /\ ~outputs[2].fresh
    /\ Len(outputs[2].transactions) >= 2
    /\ \E a \in DOMAIN outputs[2].transactions : \E b \in DOMAIN outputs[2].transactions :
          /\ a < b
          /\ outputs[2].transactions[a].description # outputs[2].transactions[b].description
          /\ CacheKey(outputs[2].transactions[a].description)
                 = CacheKey(outputs[2].transactions[b].description)

\* the description the claim types as a debit: its example, whose rightmost marker
\* is DR, or a text with neither marker
TypedDebit(description) ==
    \/ description = <<"P", "A", "Y", "M", "E", "N", "T", " ", "C", "R", " ", "T", "O", " ", "M", "E", "R", "C", "H", "A", "N", "T", " ", "D", "R">>
    \/ ~SearchWord(description, <<"C", "R">>) /\ ~SearchWord(description, <<"D", "R">>)

\* the row carries one undifferentiated amount: a nonzero amount cell, no credit
\* cell and no debit cell
SingleAmountRow(row) ==
    /\ row.credit = NoneCell
    /\ row.debit = NoneCell
    /\ ParseAmount(row.amount) # 0

\* C5: a row with a single undifferentiated amount whose description is
\* "PAYMENT CR TO MERCHANT DR" (rightmost marker DR), or has no marker at all, is
\* emitted as a debit: debit > 0, credit = 0 and a negative amount.
C5_RightmostMarkerTypes ==
    \A i \in DOMAIN outputs :
        (/\ Len(df) = 1
         /\ SingleAmountRow(df[1])
         /\ TypedDebit(normalize_text(df[1].description)))
        => /\ Len(outputs[i].transactions) = 1
           /\ outputs[i].transactions[1].debit > 0
           /\ outputs[i].transactions[1].credit = 0
           /\ outputs[i].transactions[1].amount < 0

\* C6: every emitted transaction has credit >= 0 and debit >= 0, and at most one
\* of the two is nonzero.
C6_CreditDebitExclusive ==
    \A i \in DOMAIN outputs : \A k \in DOMAIN outputs[i].transactions :
        /\ outputs[i].transactions[k].credit >= 0
        /\ outputs[i].transactions[k].debit >= 0
        /\ outputs[i].transactions[k].credit = 0 \/ outputs[i].transactions[k].debit = 0

\* C7: in every emitted transaction with exactly one of credit and debit nonzero,
\* the signed amount is credit - debit.
C7_AmountIsCreditMinusDebit ==
    \A i \in DOMAIN outputs : \A k \in DOMAIN outputs[i].transactions :
        (outputs[i].transactions[k].credit = 0) # (outputs[i].transactions[k].debit = 0)
            => outputs[i].transactions[k].amount
                   = outputs[i].transactions[k].credit - outputs[i].transactions[k].debit

\* the cells of the row that parse to nothing: no date, an empty description, and
\* credit, debit, amount and balance all zero
AllAbsent(row) ==
    /\ IsMissing(row.date)
    /\ normalize_text(row.description) = <<>>
    /\ ParseAmount(row.credit) = 0
    /\ ParseAmount(row.debit) = 0
    /\ ParseAmount(row.amount) = 0
    /\ ParseAmount(row.balance) = 0

\* credit, debit and the amount column parse to zero and the description is empty
NoAmountNoText(row) ==
    /\ normalize_text(row.description) = <<>>
    /\ ParseAmount(row.credit) = 0
    /\ ParseAmount(row.debit) = 0
    /\ ParseAmount(row.amount) = 0

InNormalForm(s) ==
    /\ \A p \in DOMAIN s :
           s[p] \in UpperLetters \cup Digits \cup {"_", " ", "/", "@", ".", "-"}
    /\ \A p \in 1..(Len(s) - 1) : ~(IsSpace(s[p]) /\ IsSpace(s[p + 1]))
    /\ s # <<>> => ~IsSpace(s[1]) /\ ~IsSpace(s[Len(s)])

\* C14: every output of normalize_text, here the description of every emitted
\* transaction, is in normal form, and normalizing it again leaves it unchanged.
C14_NormalizedIsNormalForm ==
    \A i \in DOMAIN outputs : \A k \in DOMAIN outputs[i].transactions :
        /\ InNormalForm(outputs[i].transactions[k].description)
        /\ NormalizeStr(outputs[i].transactions[k].description)
               = outputs[i].transactions[k].description

-----------------------------------------------------------------------------
(* transaction_categorizer.py *)

\* a number of a transaction dict, or None
NumVal(n) == [isNone |-> FALSE, num |-> n]
NoNum == [isNone |-> TRUE, num |-> 0]

\* transaction_categorizer.safe_float(value), default 0.0
safe_float_value(value) == IF value.isNone THEN 0 ELSE value.num

\* a pattern is its literal parts, the pieces between its '.*'
\* TransactionCategorizer._build_category_patterns(), in table order
category_patterns ==
    << [cat_key |-> "Income",
        patterns |-> << << <<"s", "a", "l", "a", "r", "y">> >>, << <<"p", "a", "y", "r", "o", "l", "l">> >>, << <<"w", "a", "g", "e", "s">> >>,
                     << <<"i", "n", "c", "o", "m", "e">> >>, << <<"c", "r", "e", "d", "i", "t">>, <<"s", "a", "l", "a", "r", "y">> >>, << <<"e", "m", "p", "l", "o", "y", "e", "r">> >>,
                     << <<"p", "a", "y">>, <<"c", "r", "e", "d", "i", "t">> >>, << <<"s", "a", "l", "a", "r", "y">>, <<"c", "r", "e", "d", "i", "t">> >>, << <<"s", "a", "l", "a", "r", "y">>, <<"t", "r", "a", "n", "s", "f", "e", "r">> >> >>],
       [cat_key |-> "Reward/Cashback",
        patterns |-> << << <<"r", "e", "w", "a", "r", "d">> >>, << <<"c", "a", "s", "h", "b", "a", "c", "k">> >>, << <<"b", "o", "n", "u", "s">> >>,
                     << <<"c", "a", "s", "h">>, <<"b", "a", "c", "k">> >>, << <<"l", "o", "y", "a", "l", "t", "y">> >>, << <<"p", "o", "i", "n", "t", "s">>, <<"c", "r", "e", "d", "i", "t">> >>,
                     << <<"r", "e", "w", "a", "r", "d">>, <<"p", "o", "i", "n", "t", "s">> >>, << <<"c", "a", "s", "h", "b", "a", "c", "k">>, <<"c", "r", "e", "d", "i", "t">> >> >>],
       [cat_key |-> "Refund",
        patterns |-> << << <<"r", "e", "f", "u", "n", "d">> >>, << <<"r", "e", "v", "e", "r", "s", "a", "l">> >>, << <<"c", "h", "a", "r", "g", "e", "b", "a", "c", "k">> >>,
                     << <<"r", "e", "t", "u", "r", "n">>, <<"r", "e", "f", "u", "n", "d">> >>, << <<"r", "e", "f", "u", "n", "d">>, <<"c", "r", "e", "d", "i", "t">> >>, << <<"p", "a", "y", "m", "e", "n", "t">>, <<"r", "e", "v", "e", "r", "s", "a", "l">> >>,
                     << <<"r", "e", "f", "u", "n", "d">>, <<"r", "e", "c", "e", "i", "v", "e", "d">> >> >>],
       [cat_key |-> "Bill Payment",
        patterns |-> << << <<"e", "l", "e", "c", "t", "r", "i", "c", "i", "t", "y">> >>, << <<"w", "a", "t", "e", "r">> >>, << <<"g", "a", "s">> >>,
                     << <<"u", "t", "i", "l", "i", "t", "y">> >>, << <<"b", "i", "l", "l">>, <<"p", "a", "y", "m", "e", "n", "t">> >>, << <<"p", "h", "o", "n", "e">>, <<"b", "i", "l", "l">> >>,
                     << <<"m", "o", "b", "i", "l", "e">>, <<"b", "i", "l", "l">> >>, << <<"i", "n", "t", "e", "r", "n", "e", "t">>, <<"b", "i", "l", "l">> >>, << <<"c", "a", "b", "l", "e">>, <<"b", "i", "l", "l">> >> >>],
       [cat_key |-> "Subscription",
        patterns |-> << << <<"s", "u", "b", "s", "c", "r", "i", "p", "t", "i", "o", "n">> >>, << <<"n", "e", "t", "f", "l", "i", "x">> >>, << <<"s", "p", "o", "t", "i", "f", "y">> >>,
                     << <<"p", "r", "i", "m", "e">> >>, << <<"m", "o", "n", "t", "h", "l", "y">>, <<"f", "e", "e">> >>, << <<"a", "n", "n", "u", "a", "l", "l", "y">> >>,
                     << <<"r", "e", "c", "u", "r", "r", "i", "n", "g">>, <<"s", "u", "b", "s", "c", "r", "i", "p", "t", "i", "o", "n">> >>, << <<"a", "u", "t", "o">>, <<"d", "e", "b", "i", "t">>, <<"s", "u", "b", "s", "c", "r", "i", "p", "t", "i", "o", "n">> >>, << <<"a", "m", "a", "z", "o", "n">>, <<"p", "r", "i", "m", "e">> >>,
                     << <<"y", "o", "u", "t", "u", "b", "e">>, <<"p", "r", "e", "m", "i", "u", "m">> >> >>],
       [cat_key |-> "EMI",
        patterns |-> << << <<"e", "m", "i">> >>, << <<"l", "o", "a", "n">>, <<"e", "m", "i">> >>, << <<"i", "n", "s", "t", "a", "l", "l", "m", "e", "n", "t">> >>,
                     << <<"l", "o", "a", "n">>, <<"r", "e", "p", "a", "y", "m", "e", "n", "t">> >>, << <<"e", "q", "u", "a", "t", "e", "d">>, <<"m", "o", "n", "t", "h", "l", "y">> >>, << <<"h", "o", "m", "e">>, <<"l", "o", "a", "n">>, <<"e", "m", "i">> >>,
                     << <<"c", "a", "r">>, <<"l", "o", "a", "n">>, <<"e", "m", "i">> >> >>],
       [cat_key |-> "UPI Transfer",
        patterns |-> << << <<"u", "p", "i">> >>, << <<"p", "a", "y", "t", "m">> >>, << <<"p", "h", "o", "n", "e", "p", "e">> >>,
                     << <<"g", "p", "a", "y">> >>, << <<"g", "o", "o", "g", "l", "e">>, <<"p", "a", "y">> >>, << <<"u", "p", "i">>, <<"t", "r", "a", "n", "s", "f", "e", "r">> >>,
                     << <<"u", "p", "i">>, <<"p", "a", "y", "m", "e", "n", "t">> >> >>],
       [cat_key |-> "Bank Transfer",
        patterns |-> << << <<"n", "e", "f", "t">> >>, << <<"r", "t", "g", "s">> >>, << <<"i", "m", "p", "s">> >>,
                     << <<"b", "a", "n", "k">>, <<"t", "r", "a", "n", "s", "f", "e", "r">> >>, << <<"o", "n", "l", "i", "n", "e">>, <<"t", "r", "a", "n", "s", "f", "e", "r">> >>, << <<"e", "l", "e", "c", "t", "r", "o", "n", "i", "c">>, <<"t", "r", "a", "n", "s", "f", "e", "r">> >> >>],
       [cat_key |-> "Cash Flow",
        patterns |-> << << <<"a", "t", "m">> >>, << <<"c", "a", "s", "h">>, <<"w", "i", "t", "h", "d", "r", "a", "w", "a", "l">> >>, << <<"c", "a", "s", "h">>, <<"a", "t", "m">> >>,
                     << <<"w", "i", "t", "h", "d", "r", "a", "w", "a", "l">>, <<"a", "t", "m">> >>, << <<"c", "a", "s", "h">>, <<"d", "e", "p", "o", "s", "i", "t">> >> >>],
       [cat_key |-> "Loan",
        patterns |-> << << <<"l", "o", "a", "n">>, <<"d", "i", "s", "b", "u", "r", "s", "e", "m", "e", "n", "t">> >>, << <<"p", "e", "r", "s", "o", "n", "a", "l">>, <<"l", "o", "a", "n">> >>, << <<"l", "o", "a", "n">>, <<"c", "r", "e", "d", "i", "t">> >>,
                     << <<"l", "o", "a", "n">>, <<"d", "i", "s", "b", "u", "r", "s", "e", "d">> >> >>],
       [cat_key |-> "Investment",
        patterns |-> << << <<"i", "n", "v", "e", "s", "t", "m", "e", "n", "t">> >>, << <<"m", "u", "t", "u", "a", "l">>, <<"f", "u", "n", "d">> >>, << <<"s", "t", "o", "c", "k", "s">> >>,
                     << <<"s", "h", "a", "r", "e", "s">> >>, << <<"f", "i", "x", "e", "d">>, <<"d", "e", "p", "o", "s", "i", "t">> >>, << <<"f", "d">> >>,
                     << <<"r", "d">> >>, << <<"s", "i", "p">>, <<"i", "n", "v", "e", "s", "t", "m", "e", "n", "t">> >> >>],
       [cat_key |-> "Expense",
        patterns |-> << << <<"e", "x", "p", "e", "n", "s", "e">> >>, << <<"p", "u", "r", "c", "h", "a", "s", "e">> >>, << <<"p", "a", "y", "m", "e", "n", "t">> >>,
                     << <<"d", "e", "b", "i", "t">> >>, << <<"p", "o", "s">>, <<"t", "r", "a", "n", "s", "a", "c", "t", "i", "o", "n">> >>, << <<"c", "a", "r", "d">>, <<"p", "a", "y", "m", "e", "n", "t">> >> >>] >>

\* TransactionCategorizer._build_risk_keywords()
merchant_risk_keywords ==
    [high_risk |-> << << <<"c", "a", "s", "i", "n", "o">> >>, << <<"g", "a", "m", "b", "l", "i", "n", "g">> >>, << <<"b", "e", "t", "t", "i", "n", "g">> >>,
                      << <<"c", "r", "y", "p", "t", "o">> >>, << <<"b", "i", "t", "c", "o", "i", "n">> >>, << <<"f", "o", "r", "e", "x">> >> >>,
     medium_risk |-> << << <<"o", "n", "l", "i", "n", "e">>, <<"p", "a", "y", "m", "e", "n", "t">> >>, << <<"i", "n", "t", "e", "r", "n", "a", "t", "i", "o", "n", "a", "l">> >>, << <<"f", "o", "r", "e", "i", "g", "n">>, <<"t", "r", "a", "n", "s", "a", "c", "t", "i", "o", "n">> >> >>,
     low_risk |-> << << <<"s", "a", "l", "a", "r", "y">> >>, << <<"u", "t", "i", "l", "i", "t", "y">> >>, << <<"g", "o", "v", "e", "r", "n", "m", "e", "n", "t">> >>,
                      << <<"b", "a", "n", "k">> >> >>]

RECURSIVE SumLen(_, _)
SumLen(parts, k) == IF k > Len(parts) THEN 0 ELSE Len(parts[k]) + SumLen(parts, k + 1)

\* len(pattern): the literal characters and two for each '.*'
PatternLen(parts) == SumLen(parts, 1) + 2 * (Len(parts) - 1)

\* the leftmost position >= from at which lit occurs in s; 0 if none
FirstAt(s, lit, from) ==
    MinOrZero({i \in from..(Len(s) - Len(lit) + 1) : MatchAt(s, i, lit)})

\* re.search(pattern, description): the parts occur in order, each after the end of
\* the one before ('.*' matches any run of characters of a one-line description)
RECURSIVE SearchFrom(_, _, _, _)
SearchNext(s, parts, k, pos) ==
    pos # 0 /\ SearchFrom(s, parts, k + 1, pos + Len(parts[k]))

SearchFrom(s, parts, k, from) ==
    IF k > Len(parts) THEN TRUE
    ELSE SearchNext(s, parts, k, FirstAt(s, parts[k], from))

SearchPattern(parts, description) == SearchFrom(description, parts, 1, 1)

\* line 103: matched_category = None
NoCategory == "None"

\* lines 107-112: the pattern at which the inner loop ends, the first of the
\* category that is found and is longer than the longest so far (the break);
\* 0 when the loop runs through
BreakIndex(description, patterns, max_match_length) ==
    MinOrZero({j \in DOMAIN patterns :
                  /\ SearchPattern(patterns[j], description)
                  /\ PatternLen(patterns[j]) > max_match_length})

\* lines 109-112: what the inner loop leaves when it ends at pattern j
AfterPatterns(cat_key, patterns, st, j) ==
    IF j = 0 THEN st
    ELSE [matched_category |-> cat_key,
          max_match_length |-> PatternLen(patterns[j])]

\* lines 107-112: the inner loop over the patterns of one category
ScanPatterns(description, cat_key, patterns, st) ==
    AfterPatterns(cat_key, patterns, st,
                  BreakIndex(description, patterns, st.max_match_length))

\* lines 106-112: the outer loop over the first i categories
RECURSIVE ScanCategories(_, _)
ScanCategories(description, i) ==
    IF i = 0 THEN [matched_category |-> NoCategory, max_match_length |-> 0]
    ELSE ScanPatterns(description, category_patterns[i].cat_key,
                      category_patterns[i].patterns,
                      ScanCategories(description, i - 1))

\* lines 103-112
MatchCategory(description) ==
    ScanCategories(description, Len(category_patterns))

SearchAnyPattern(patterns, description) ==
    \E k \in 1..Len(patterns) : SearchPattern(patterns[k], description)

\* TransactionCategorizer._calculate_merchant_risk(description), in hundredths
calculate_merchant_risk(description) ==
    IF SearchAnyPattern(merchant_risk_keywords.high_risk, description) THEN 90
    ELSE IF SearchAnyPattern(merchant_risk_keywords.medium_risk, description) THEN 60
    ELSE IF SearchAnyPattern(merchant_risk_keywords.low_risk, description) THEN 20
    ELSE 50

\* a deviation that tests the category before the small amounts
DeviationOfCategoryFirst(amount, category) ==
    IF amount > 100000 THEN "High Value"
    ELSE IF category = "Unknown" THEN "Uncategorized"
    ELSE IF amount < 10 THEN "Micro Transaction"
    ELSE "Normal"

\* lines 157-166, from amount = safe_float(credit) or safe_float(debit)
DeviationOf(amount, category) ==
    IF amount > 100000 THEN "High Value"
    ELSE IF amount < 10 THEN "Micro Transaction"
    ELSE IF category = "Unknown" THEN "Uncategorized"
    ELSE "Normal"

\* TransactionCategorizer._determine_behavioral_deviation(transaction, category)
determine_behavioral_deviation(transaction, category) ==
    DeviationOf(IF safe_float_value(transaction.credit) # 0
                THEN safe_float_value(transaction.credit)
                ELSE safe_float_value(transaction.debit),
                category)

\* lines 114-120: the category, from the result of the scan
CategoryOf(st, credit, debit) ==
    IF st.matched_category # NoCategory THEN st.matched_category
    ELSE IF credit > 0 THEN "Income"
    ELSE IF debit > 0 THEN "Expense"
    ELSE "Unknown"

\* lines 124-127, in hundredths
NarrationRiskConfidence(st) ==
    IF st.matched_category # NoCategory THEN Min(95, 50 + st.max_match_length) ELSE 30

\* lines 114-137, from the lower-cased description and the result of the scan
CategorizeWith(transaction, description, st, category) ==
    [category |-> category,
     subcategory |-> "",
     merchant_risk_score |-> calculate_merchant_risk(description),
     narration_risk_confidence |-> NarrationRiskConfidence(st),
     behavioral_deviation |-> determine_behavioral_deviation(transaction, category)]

CategorizeScanned(transaction, description, st) ==
    CategorizeWith(transaction, description, st,
                   CategoryOf(st, safe_float_value(transaction.credit),
                              safe_float_value(transaction.debit)))

CategorizeLowered(transaction, description) ==
    CategorizeScanned(transaction, description, MatchCategory(description))

\* TransactionCategorizer.categorize_transaction(transaction)
categorize_transaction(transaction) ==
    CategorizeLowered(transaction, Lower(transaction.description))

-----------------------------------------------------------------------------
(* The categorizer run on one transaction *)

MaxDescWords == 2

DescWords == { <<"U", "P", "I">>, <<"P", "A", "Y", "M", "E", "N", "T">>, <<"S", "A", "L", "A", "R", "Y">>, <<"C", "R", "E", "D", "I", "T">>, <<"L", "O", "A", "N">>, <<"E", "M", "I">>, <<"C", "A", "S", "I", "N", "O">>, <<"S", "H", "O", "P">> }

RECURSIVE JoinedWords(_)
JoinedWords(n) ==
    IF n = 0 THEN {<<>>}
    ELSE JoinedWords(n - 1)
         \cup {IF d = <<>> THEN w ELSE d \o <<" ">> \o w : d \in JoinedWords(n - 1), w \in DescWords}

CatDescriptions == JoinedWords(MaxDescWords)

CatAmounts == { NoNum, NumVal(-3), NumVal(0), NumVal(5), NumVal(500), NumVal(200000) }

CatTransactions ==
    { [description |-> d, credit |-> c, debit |-> b] :
        d \in CatDescriptions, c \in CatAmounts, b \in CatAmounts }

InitCategorize ==
    /\ party_cache = EmptyCache
    /\ calls = <<>>
    /\ df = <<>>
    /\ outputs = <<>>
    /\ txnIn \in CatTransactions
    /\ catOut = NoneVal
    /\ doc = IdleDoc
    /\ docResult = NoneVal

\* categorize_transaction(txnIn)
Categorize ==
    /\ catOut = NoneVal
    /\ catOut' = categorize_transaction(txnIn)
    /\ UNCHANGED <<party_cache, calls, df, outputs, txnIn, doc, docResult>>

NextCategorize == Categorize

SpecCategorize == InitCategorize /\ [][NextCategorize]_vars

\* every pattern of the table with its category
AllPatterns ==
    UNION { { [cat_key |-> category_patterns[i].cat_key,
               parts |-> category_patterns[i].patterns[j]] :
                 j \in DOMAIN category_patterns[i].patterns } :
            i \in DOMAIN category_patterns }

\* the patterns of the table found in the description
MatchingPatterns(description) ==
    {p \in AllPatterns : SearchPattern(p.parts, description)}

\* C4: when some pattern of the table is found in the description, the category
\* returned owns a longest pattern among those found.
C4_LongestPatternWins ==
    catOut # NoneVal =>
        \A q \in MatchingPatterns(Lower(txnIn.description)) :
            \E p \in MatchingPatterns(Lower(txnIn.description)) :
                /\ p.cat_key = catOut.category
                /\ PatternLen(p.parts) >= PatternLen(q.parts)

\* C15: whenever categorize_transaction returns category 'Unknown' it returns
\* behavioral_deviation 'Micro Transaction', and 'Uncategorized' is never
\* returned: 'Unknown' needs credit <= 0 and debit <= 0, so the amount of the
\* deviation test is below 10.
C15_UnknownIsMicro ==
    catOut # NoneVal =>
        /\ catOut.category = "Unknown" => catOut.behavioral_deviation = "Micro Transaction"
        /\ catOut.behavioral_deviation # "Uncategorized"

\* 'Unknown' was returned for a transaction with a negative credit and for one
\* with no pattern in its description
C15_Witness ==
    /\ catOut # NoneVal
    /\ catOut.category = "Unknown"
    /\ txnIn.description # <<>>
    /\ txnIn.credit = NumVal(-3)
    /\ txnIn.debit = NumVal(0)

-----------------------------------------------------------------------------
(* excel_processor.py : public entry *)

\* an account profile: a function from the keys found to their values
NoProfile == [k \in {} |-> ""]

\* account_profile.update(profile)
UpdateProfile(acc, profile) == [acc EXCEPT !.account_profile = profile @@ @]

\* lines 101-102: the sheet is skipped with a warning
SheetSkipped(acc) == [acc EXCEPT !.log = Append(@, "warning: sheet skipped")]

\* lines 98-99: transactions.extend(sheet_txns), r what _extract_from_dataframe gave
ExtendWith(acc, r) ==
    [acc EXCEPT !.transactions = @ \o r.transactions, !.cache = r.cache]

\* lines 86-102, the body of the loop for one sheet.  A sheet is what reading it
\* does: read_excel raises (line 87), no header row is detected (lines 90-92),
\* the read with the header raises (line 94), or its rows are extracted
ReadSheet(acc, sheet, filename, sheet_name) ==
    CASE sheet.stage = "read_error" -> SheetSkipped(acc)
      [] sheet.stage = "no_header" -> UpdateProfile(acc, sheet.profile)
      [] sheet.stage = "header_read_error" ->
             SheetSkipped(UpdateProfile(acc, sheet.profile))
      [] sheet.stage = "ok" ->
             ExtendWith(UpdateProfile(acc, sheet.profile),
                        ExtractFromDataframe(acc.cache, sheet.rows, filename, sheet_name))

\* lines 85-102: the loop over the first i sheets
RECURSIVE ReadSheets(_, _, _, _)
ReadSheets(cache, sheets, i, filename) ==
    IF i = 0
    THEN [transactions |-> <<>>, account_profile |-> NoProfile, cache |-> cache, log |-> <<>>]
    ELSE ReadSheet(ReadSheets(cache, sheets, i - 1, filename), sheets[i],
                   filename, sheets[i].name)

\* what extract_transactions hands back: lines 107
ExcelReturn(acc) ==
    [result |-> [outcome |-> "returned",
                 transactions |-> acc.transactions,
                 account_profile |-> acc.account_profile,
                 log |-> acc.log],
     cache |-> acc.cache]

\* ExcelProcessor.extract_transactions(file_content, filename) on an instance whose
\* cache is `cache`: what the caller gets and the cache left.  When pd.ExcelFile
\* raises, the outer handler logs an error and the empty results are returned
excel_extract_transactions(cache, document, filename) ==
    IF ~document.opens
    THEN ExcelReturn([transactions |-> <<>>, account_profile |-> NoProfile,
                      cache |-> cache, log |-> <<"error: Excel read error">>])
    ELSE ExcelReturn(ReadSheets(cache, document.sheets, Len(document.sheets), filename))

-----------------------------------------------------------------------------
(* pdf_processor.py : public entry and the two backends *)

\* the k-th transaction _parse_text finds in the text of page i
PageTxn(i, k) == [source |-> "pdf", page |-> i, index |-> k]

\* _parse_text(text) for the text of page i, which holds n transactions
PageTxns(i, n) == [k \in 1..n |-> PageTxn(i, k)]

\* the first page whose extract_text or _parse_text raises under the backend; 0 if none
FirstRaising(pages, backend) ==
    MinOrZero({i \in DOMAIN pages : pages[i][backend].text = "raises"})

\* lines 55-59, 72-77: the loop over pages 1..last, none of which raises; a page
\* without text adds nothing
RECURSIVE ExtendPages(_, _, _)
ExtendPages(pages, backend, last) ==
    IF last = 0 THEN <<>>
    ELSE ExtendPages(pages, backend, last - 1)
         \o (IF pages[last][backend].text = "text"
             THEN PageTxns(last, pages[last][backend].txns) ELSE <<>>)

\* the page loop inside the try: it ends at the first page that raises, and the
\* handler around the whole loop logs a warning
LoopUntil(pages, backend, raising) ==
    IF raising = 0
    THEN [transactions |-> ExtendPages(pages, backend, Len(pages)), log |-> <<>>]
    ELSE [transactions |-> ExtendPages(pages, backend, raising - 1),
          log |-> <<"warning: extraction error">>]

\* PDFProcessor._extract_with_pdfplumber / _extract_with_pypdf2
ExtractWith(document, backend) ==
    IF ~document.opens[backend]
    THEN [transactions |-> <<>>, log |-> <<"warning: extraction error">>]
    ELSE LoopUntil(document.pages, backend, FirstRaising(document.pages, backend))

extract_with_pdfplumber(document) == ExtractWith(document, "pdfplumber")

extract_with_pypdf2(document) == ExtractWith(document, "pypdf2")

\* lines 40-48: after the fallback
AfterPyPdf2(log, second) ==
    IF second.transactions = <<>>
    THEN [outcome |-> "raised", error |-> "ValueError", transactions |-> <<>>,
          log |-> log \o second.log \o <<"error: Error extracting transactions">>]
    ELSE [outcome |-> "returned", error |-> "", transactions |-> second.transactions,
          log |-> log \o second.log \o <<"info: Successfully extracted">>]

\* lines 35-48: after pdfplumber
AfterPdfPlumber(document, first) ==
    IF first.transactions = <<>>
    THEN AfterPyPdf2(first.log \o <<"info: Trying PyPDF2 extraction">>,
                     extract_with_pypdf2(document))
    ELSE [outcome |-> "returned", error |-> "", transactions |-> first.transactions,
          log |-> first.log \o <<"info: Successfully extracted">>]

\* PDFProcessor.extract_transactions(pdf_bytes)
pdf_extract_transactions(document) ==
    AfterPdfPlumber(document, extract_with_pdfplumber(document))

-----------------------------------------------------------------------------
(* The public entry points run on one document *)

MaxSheets == 2
MaxPages == 2

SheetNames == << "Sheet1", "Sheet2", "Sheet3", "Sheet4" >>

HolderProfile == [k \in {"account_holder_name"} |-> "RAVI KUMAR"]

SheetRows ==
    { << Row(StrCell(<<"0", "5", "/", "0", "3", "/", "2", "0", "2", "4">>), StrCell(<<"U", "P", "I", "/", "A", "M", "A", "Z", "O", "N", " ", "P", "A", "Y">>), NoneCell,
             StrCell(<<"4", "9", "9", ".", "0", "0">>), StrCell(<<"1", "0", ",", "5", "0", "0", ".", "0", "0">>), NoneCell) >>,
      << Row(NoneCell, NoneCell, NoneCell, NoneCell, NoneCell, NoneCell) >> }

Sheet(stage, rows, profile) == [stage |-> stage, rows |-> rows, profile |-> profile]

\* what one sheet can be, before it is given its name
SheetKinds ==
    { Sheet("read_error", <<>>, NoProfile) }
    \cup { Sheet(st, <<>>, p) : st \in {"no_header", "header_read_error"},
                                 p \in {NoProfile, HolderProfile} }
    \cup { Sheet("ok", r, p) : r \in SheetRows, p \in {NoProfile, HolderProfile} }

Named(kinds) ==
    [i \in DOMAIN kinds |-> [name |-> SheetNames[i], stage |-> kinds[i].stage,
                             rows |-> kinds[i].rows, profile |-> kinds[i].profile]]

ExcelDocuments ==
    { [kind |-> "excel", opens |-> o, sheets |-> Named(ks)] :
        o \in BOOLEAN, ks \in SeqsUpTo(SheetKinds, MaxSheets) }

\* what a backend gets from one page: an exception, no text, or text holding
\* some transactions
PageViews ==
    { [text |-> "raises", txns |-> 0], [text |-> "none", txns |-> 0],
      [text |-> "text", txns |-> 0], [text |-> "text", txns |-> 1] }

Pages == { [pdfplumber |-> a, pypdf2 |-> b] : a \in PageViews, b \in PageViews }

PdfDocuments ==
    { [kind |-> "pdf", opens |-> [pdfplumber |-> o1, pypdf2 |-> o2], pages |-> ps] :
        o1 \in BOOLEAN, o2 \in BOOLEAN, ps \in SeqsUpTo(Pages, MaxPages) }

NoResult == [outcome |-> "none"]

InitDoc ==
    /\ party_cache = EmptyCache
    /\ calls = <<>>
    /\ df = <<>>
    /\ outputs = <<>>
    /\ txnIn = IdleTxn
    /\ catOut = NoneVal
    /\ doc \in ExcelDocuments \cup PdfDocuments
    /\ docResult = NoResult

\* ExcelProcessor().extract_transactions(file_content, filename)
ExcelExtractTransactions ==
    /\ doc.kind = "excel"
    /\ docResult = NoResult
    /\ \E r \in {excel_extract_transactions(party_cache, doc, FileName)} :
          /\ docResult' = r.result
          /\ party_cache' = r.cache
    /\ UNCHANGED <<calls, df, outputs, txnIn, catOut, doc>>

\* PDFProcessor().extract_transactions(pdf_bytes)
PdfExtractTransactions ==
    /\ doc.kind = "pdf"
    /\ docResult = NoResult
    /\ docResult' = pdf_extract_transactions(doc)
    /\ UNCHANGED <<party_cache, calls, df, outputs, txnIn, catOut, doc>>

NextDoc ==
    \/ ExcelExtractTransactions
    \/ PdfExtractTransactions

SpecDoc == InitDoc /\ [][NextDoc]_vars

-----------------------------------------------------------------------------
(* Properties of the entry points *)

\* the transactions returned that come from the sheet of that name
FromSheet(transactions, sheet_name) ==
    SelectSeq(transactions, LAMBDA t : t.source_sheet = sheet_name)

\* how many transactions the rows of the sheet give on their own
OwnCount(sheet) ==
    Len(ExtractFromDataframe(EmptyCache, sheet.rows, FileName, sheet.name).transactions)

InResult(t) == \E k \in DOMAIN docResult.transactions : docResult.transactions[k] = t

\* C9: an exception on one sheet or page skips that sheet or page only.  For a
\* workbook that opens, every sheet that is read contributes all of its
\* transactions and a failing sheet none, wherever the failing sheets stand; for
\* a PDF that pdfplumber opens, every page whose text pdfplumber reads has its
\* transactions returned, whichever other pages raise.
C9_FailureSkipsOnlyThatUnit ==
    /\ (doc.kind = "excel" /\ docResult # NoResult /\ doc.opens) =>
           \A i \in DOMAIN doc.sheets :
               Len(FromSheet(docResult.transactions, doc.sheets[i].name))
                   = IF doc.sheets[i].stage = "ok" THEN OwnCount(doc.sheets[i]) ELSE 0
    /\ (doc.kind = "pdf" /\ docResult # NoResult /\ doc.opens.pdfplumber) =>
           \A i \in DOMAIN doc.pages :
               doc.pages[i].pdfplumber.text = "text" =>
                   \A k \in 1..doc.pages[i].pdfplumber.txns : InResult(PageTxn(i, k))

\* the backend finds no transaction in the document: it cannot open it, or no
\* page that it reads holds one
YieldsNothing(document, backend) ==
    \/ ~document.opens[backend]
    \/ \A i \in DOMAIN document.pages :
           document.pages[i][backend].text = "text" => document.pages[i][backend].txns = 0

PyPdf2Ran == \E k \in DOMAIN docResult.log : docResult.log[k] = "info: Trying PyPDF2 extraction"

\* C10: a result with no transaction is never returned, the failure is raised:
\* by the Excel entry point when the workbook cannot be opened or no sheet yields
\* a transaction, and by the PDF entry point exactly when both backends yielded
\* none, PyPDF2 having run exactly when pdfplumber yielded none.
C10_FailureSignalled ==
    docResult # NoResult =>
        /\ docResult.outcome = "returned" => docResult.transactions # <<>>
        /\ doc.kind = "excel" /\ ~doc.opens => docResult.outcome = "raised"
        /\ doc.kind = "pdf" =>
               /\ PyPdf2Ran <=> extract_with_pdfplumber(doc).transactions = <<>>
               /\ docResult.outcome = "raised" <=>
                      /\ extract_with_pdfplumber(doc).transactions = <<>>
                      /\ extract_with_pypdf2(doc).transactions = <<>>

\* the PDF half of C10 alone
PdfFailureSignalled ==
    (docResult # NoResult /\ doc.kind = "pdf") =>
        /\ docResult.outcome = "returned" => docResult.transactions # <<>>
        /\ PyPdf2Ran <=> extract_with_pdfplumber(doc).transactions = <<>>
        /\ docResult.outcome = "raised" <=>
               /\ extract_with_pdfplumber(doc).transactions = <<>>
               /\ extract_with_pypdf2(doc).transactions = <<>>

\* the Excel half of C9 alone
ExcelFailureSkipsOnlyThatSheet ==
    (doc.kind = "excel" /\ docResult # NoResult /\ doc.opens) =>
        \A i \in DOMAIN doc.sheets :
            Len(FromSheet(docResult.transactions, doc.sheets[i].name))
                = IF doc.sheets[i].stage = "ok" THEN OwnCount(doc.sheets[i]) ELSE 0
-----------------------------------------------------------------------------
(* pdf_processor.py : free-text parser *)

\* the balance above which _parse_text drops a line
BalanceLimit == 100000000

\* PDFProcessor.month_map, the value of a key being its position
month_map ==
    << <<"J", "A", "N">>, <<"F", "E", "B">>, <<"M", "A", "R">>, <<"A", "P", "R">>, <<"M", "A", "Y">>, <<"J", "U", "N">>,
       <<"J", "U", "L">>, <<"A", "U", "G">>, <<"S", "E", "P">>, <<"O", "C", "T">>, <<"N", "O", "V">>, <<"D", "E", "C">> >>

\* self.month_map.get(month_str.upper(), '01')
MonthOf(month_str) ==
    IF \E k \in 1..Len(month_map) : month_map[k] = Upper(month_str)
    THEN ZeroPad(NatDigits(CHOOSE k \in 1..Len(month_map) :
                               month_map[k] = Upper(month_str)), 2)
    ELSE <<"0", "1">>

\* lit in s
Contains(s, lit) == \E i \in 1..Len(s) : MatchAt(s, i, lit)

\* s.strip(chars)
StripChars(s, chars) ==
    LET solid == {i \in 1..Len(s) : s[i] \notin chars}
    IN IF solid = {} THEN <<>>
       ELSE SubSeq(s, CHOOSE i \in solid : \A j \in solid : i <= j,
                      CHOOSE i \in solid : \A j \in solid : i >= j)

\* the positions of s in increasing order
Positions(s) == [i \in 1..Len(s) |-> i]

\* text.split('\n')
SplitLines(text) ==
    LET cuts == KeepAt(Positions(text), {i \in 1..Len(text) : text[i] = "\n"})
        from(k) == IF k = 1 THEN 1 ELSE cuts[k - 1] + 1
        to(k) == IF k > Len(cuts) THEN Len(text) ELSE cuts[k] - 1
    IN [k \in 1..(Len(cuts) + 1) |-> SubSeq(text, from(k), to(k))]

\* the skip_patterns of _is_header_line
skip_patterns ==
    { <<"E", "a", "c", "h", "d", "e", "p", "o", "s", "i", "t", "o", "r">>, <<"A", "c", "c", "o", "u", "n", "t", ",">>, <<"I", "m", "p", "o", "r", "t", "a", "n", "t">>, <<"B", "a", "n", "d", "h", "a", "n">>, <<"U", "n", "l", "e", "s", "s">>,
      <<"A", "c", "c", "o", "u", "n", "t", " ", "N", "o">>, <<"P", "r", "o", "d", "u", "c", "t", " ", "T", "y", "p", "e">>, <<"A", "c", "c", "o", "u", "n", "t", " ", "T", "y", "p", "e">>, <<"M", "A", "B">>, <<"N", "o", "m", "i", "n", "e", "e">>,
      <<"J", "o", "i", "n", "t", " ", "H", "o", "l", "d", "e", "r">>, <<"B", "r", "a", "n", "c", "h", " ", "A", "d", "d", "r", "e", "s", "s">>, <<"O", "p", "e", "n", "i", "n", "g", " ", "B", "a", "l", "a", "n", "c", "e">>, <<"T", "o", "t", "a", "l", " ", "D", "e", "b", "i", "t">>,
      <<"T", "o", "t", "a", "l", " ", "C", "r", "e", "d", "i", "t">>, <<"E", "N", "D", " ", "O", "F", " ", "S", "T", "A", "T", "E", "M", "E", "N", "T">>, <<"S", "T", "A", "T", "E", "M", "E", "N", "T", " ", "O", "F", " ", "A", "C", "C", "O", "U", "N", "T">>,
      <<"D", "A", "T", "E", "V", "A", "L", "U", "E">>, <<"D", "A", "T", "E", "C", "H", "E", "Q", "U", "E">>, <<"I", "N", "S", "T", "R", "U", "M", "E", "N", "T">>, <<"G", "O", "R", "E", "G", "A", "O", "N">>, <<"F", "r", "o", "m", " ", "D", "a", "t", "e">>,
      <<"T", "o", " ", "D", "a", "t", "e">>, <<"T", "R", "A", "N", "S", " ", "V", "A", "L", "U", "E">>, <<"C", "H", "E", "Q", "U", "E", " ", "/">>, <<"D", "E", "S", "C", "R", "I", "P", "T", "I", "O", "N">>, <<"D", "E", "B", "I", "T", "S", " ", "C", "R", "E", "D", "I", "T", "S">>,
      <<"B", "A", "L", "A", "N", "C", "E">>, <<"D", "A", "T", "E", " ", "D", "A", "T", "E">>, <<"S", "t", "a", "t", "e", "m", "e", "n", "t", " ", "S", "u", "m", "m", "a", "r", "y">>, <<"C", "u", "s", "t", "o", "m", "e", "r", " ", "N", "u", "m", "b", "e", "r">>,
      <<"C", "u", "r", "r", "e", "n", "c", "y", " ", "N", "a", "m", "e">>, <<"C", "a", "p", "i", "t", "a", "l", "i", "z", "e", "d">> }

\* PDFProcessor._is_header_line(line)
IsHeaderUpper(line_upper) == \E pattern \in skip_patterns : Contains(line_upper, Upper(pattern))

is_header_line(line) == IsHeaderUpper(Upper(line))

\* r'(\d{2})-([A-Za-z]{3})-' stands in s at position p
DateAt(s, p) ==
    /\ p >= 1
    /\ p + 6 <= Len(s)
    /\ s[p] \in Digits
    /\ s[p + 1] \in Digits
    /\ s[p + 2] = "-"
    /\ \A j \in (p + 3)..(p + 5) : s[j] \in UpperLetters \cup LowerLetters
    /\ s[p + 6] = "-"

\* re.search(r'(\d{2})-([A-Za-z]{3})-', line): where the match starts, 0 for None
DateMatch(line) == MinOrZero({p \in 1..Len(line) : DateAt(line, p)})

\* next_line starts with four digits and whitespace, its first character after
\* that whitespace being at position e
YearLineAt(next_line, e) ==
    /\ Len(next_line) >= 5
    /\ \A j \in 1..4 : next_line[j] \in Digits
    /\ IsSpace(next_line[5])
    /\ \/ /\ e + 3 <= Len(next_line)
          /\ \A j \in e..(e + 3) : next_line[j] \in Digits
       \/ /\ e <= Len(next_line)
          /\ next_line[e] \in UpperLetters

\* lines 109-115: the year of a line that looks like a year line, r'^(\d{4})\s+\d{4}'
\* or r'^\d{4}\s+[A-Z]', else None
YearOfLine(next_line) ==
    IF YearLineAt(next_line, RunEnd(next_line, 5, SpaceChars) + 1)
    THEN Some(SubSeq(next_line, 1, 4))
    ELSE NoneVal

\* lines 106-115: the year taken from the line after lines[i], 1-based i
YearAfter(lines, i) ==
    IF i + 1 <= Len(lines) THEN YearOfLine(Strip(lines[i + 1])) ELSE NoneVal

\* the characters of the class [\d,]
AmountChars == Digits \cup {","}

\* r'\.\d{2}' stands in s right after position j
DecimalsAfter(s, j) ==
    /\ j + 3 <= Len(s)
    /\ s[j + 1] = "."
    /\ s[j + 2] \in Digits
    /\ s[j + 3] \in Digits

\* re.findall(amount_pattern, s) over s[i..]: a maximal run of [\d,] matches when
\* two decimals follow it, and the scan goes on after the match
RECURSIVE FindAmounts(_, _)
RECURSIVE FindAmountsAt(_, _, _)
FindAmountsAt(s, start, j) ==
    IF start = 0 THEN <<>>
    ELSE IF DecimalsAfter(s, j)
    THEN <<SubSeq(s, start, j + 3)>> \o FindAmounts(s, j + 4)
    ELSE FindAmounts(s, j + 1)

\* where the first character of [\d,] of s[i..] stands, 0 if there is none
AmountStart(s, i) == MinOrZero({j \in i..Len(s) : s[j] \in AmountChars})

AmountRunEnd(s, start) == IF start = 0 THEN 0 ELSE RunEnd(s, start, AmountChars)

FindAmounts(s, i) ==
    FindAmountsAt(s, AmountStart(s, i), AmountRunEnd(s, AmountStart(s, i)))

\* a float with two decimals: its whole part and its hundredths
Amount(whole, cents) == [whole |-> whole, cents |-> cents]

\* float(a.replace(',', '')) of a match of amount_pattern
AmountValue(a) ==
    Amount(DigitsValue(SelectSeq(SubSeq(a, 1, Len(a) - 3), LAMBDA c : c \in Digits)),
           DigitsValue(SubSeq(a, Len(a) - 1, Len(a))))

\* line 144: balance <= 100000000
WithinLimit(balance) ==
    \/ balance.whole < BalanceLimit
    \/ balance.whole = BalanceLimit /\ balance.cents = 0

\* lines 129-135: the amounts found, parsed
ParseAmounts(amounts) == [k \in 1..Len(amounts) |-> AmountValue(amounts[k])]

ParsedAmounts(line) == ParseAmounts(FindAmounts(line, 1))


\* the skip_words of _clean_party_name
party_skip_words ==
    { <<"D", "E", "P", "O", "S", "I", "T">>, <<"C", "A", "S", "H">>, <<"U", "P", "I">>, <<"C", "R">>, <<"D", "R">>, <<"W", "D", "L">>, <<"A", "T", "M">>, <<"D", "E", "P">>,
      <<"C", "H", "A", "R", "G", "E", "S">>, <<"F", "E", "E">>, <<"G", "S", "T">>, <<"C", "A", "R", "D">>, <<"A", "M", "C">>, <<"S", "E", "L", "F">>, <<"I", "N">>, <<"M", "U", "M", "B", "A", "I">>,
      <<"K", "A", "N", "D", "I", "V", "A", "L", "I">>, <<"G", "O", "R", "E", "G", "A", "O", "N">>, <<"I", "N", "D", "I", "A">>, <<"T", "R", "A", "N", "S", "F", "E", "R">>, <<"P", "A", "Y", "M", "E", "N", "T">> }

\* lines 264-265: every \b word \b of the set is removed from name
RemoveWords(name, words) ==
    KeepAt(name, {p \in 1..Len(name) :
                     ~\E w \in words : \E i \in 1..Len(name) :
                         WordAt(name, i, w) /\ p \in i..(i + Len(w) - 1)})

\* PDFProcessor._clean_party_name(name)
clean_party_name(name) ==
    IF name = <<>> THEN <<>>
    ELSE Strip(Join(Split(RemoveWords(
             PunctToSpace(SelectSeq(Strip(Upper(name)), LAMBDA c : c \notin Digits)),
             party_skip_words))))

\* the characters of the class [A-Z\s]
PartyChars == UpperLetters \cup SpaceChars

\* the group ([A-Z][A-Z\s]+?) from position g of s, as short as possible with
\* Ends holding of its last position: that position, 0 when the group fails
LazyGroupEnd(s, g, Ends(_, _)) ==
    IF g < 1 \/ g > Len(s) THEN 0
    ELSE IF s[g] \notin UpperLetters THEN 0
    ELSE MinOrZero({e \in (g + 1)..RunEnd(s, g + 1, PartyChars) : Ends(s, e)})

\* a found group: where it starts and ends, e = 0 for no match
Group(g, e) == [g |-> g, e |-> e]
NoGroup == Group(0, 0)

\* (?:\s|$) after position e
EndsAtSpace(s, e) == e = Len(s) \/ IsSpace(s[e + 1])

\* (?:MUMBAI|IN|KANDIVALI|$) after position e
EndsAtPlace(s, e) ==
    \/ e = Len(s)
    \/ MatchAt(s, e + 1, <<"M", "U", "M", "B", "A", "I">>)
    \/ MatchAt(s, e + 1, <<"I", "N">>)
    \/ MatchAt(s, e + 1, <<"K", "A", "N", "D", "I", "V", "A", "L", "I">>)

\* (?:\s*$|\d) after position e
EndsAtDigit(s, e) ==
    \/ \A j \in (e + 1)..Len(s) : IsSpace(s[j])
    \/ s[e + 1] \in Digits

\* UPI/(?:CR|DR)/ stands in s at position p
UpiAt(s, p) == MatchAt(s, p, <<"U", "P", "I", "/", "C", "R", "/">>) \/ MatchAt(s, p, <<"U", "P", "I", "/", "D", "R", "/">>)

\* r'UPI/(?:CR|DR)/\d+/([A-Z][A-Z\s]+?)(?:\s|$)' at p, the digits ending at d
UpiRefGroup(s, p, d) ==
    IF UpiAt(s, p) /\ d >= p + 7 /\ MatchAt(s, d + 1, <<"/">>)
    THEN Group(d + 2, LazyGroupEnd(s, d + 2, EndsAtSpace))
    ELSE NoGroup

UpiRefGroupAt(s, p) == UpiRefGroup(s, p, RunEnd(s, p + 7, Digits))

\* r'UPI/(?:CR|DR)/([A-Z][A-Z\s]+?)(?:\s|$)' at p
UpiGroupAt(s, p) ==
    IF UpiAt(s, p) THEN Group(p + 7, LazyGroupEnd(s, p + 7, EndsAtSpace))
    ELSE NoGroup

\* \+?\s* from position c on: where the group has to start
AfterPlus(s, c) ==
    IF MatchAt(s, c, <<"+">>) THEN RunEnd(s, c + 1, SpaceChars) + 1
    ELSE RunEnd(s, c, SpaceChars) + 1

\* the separators [,\s]+ ended before position a: first with AT\s+, then without
WdlGroup(s, a, withAt, without) ==
    IF MatchAt(s, a, <<"A", "T">>) /\ a + 2 <= Len(s) /\ IsSpace(s[a + 2])
          /\ LazyGroupEnd(s, withAt, EndsAtPlace) # 0
    THEN Group(withAt, LazyGroupEnd(s, withAt, EndsAtPlace))
    ELSE Group(without, LazyGroupEnd(s, without, EndsAtPlace))

\* r'WDL[,\s]+(?:AT\s+)?\+?\s*([A-Z][A-Z\s]+?)(?:MUMBAI|IN|KANDIVALI|$)' at p,
\* the separators ending before a
WdlGroupFrom(s, p, a) ==
    IF MatchAt(s, p, <<"W", "D", "L">>) /\ a > p + 3
    THEN WdlGroup(s, a, AfterPlus(s, RunEnd(s, a + 2, SpaceChars) + 1), AfterPlus(s, a))
    ELSE NoGroup

WdlGroupAt(s, p) == WdlGroupFrom(s, p, RunEnd(s, p + 3, SpaceChars \cup {","}) + 1)

GenericWords == { <<"D", "E", "P", "O", "S", "I", "T">>, <<"C", "A", "S", "H">>, <<"P", "A", "Y", "M", "E", "N", "T">>, <<"T", "R", "A", "N", "S", "F", "E", "R">> }

\* r'(?:DEPOSIT|CASH|PAYMENT|TRANSFER)[,\s]+([A-Z][A-Z\s]+?)(?:\s*$|\d)' at p,
\* behind the word w
GenericGroup(s, p, w, a) ==
    IF a > p + Len(w) THEN Group(a, LazyGroupEnd(s, a, EndsAtDigit)) ELSE NoGroup

GenericGroupAt(s, p) ==
    IF \E w \in GenericWords : MatchAt(s, p, w)
    THEN GenericGroup(s, p, CHOOSE w \in GenericWords : MatchAt(s, p, w),
             RunEnd(s, p + Len(CHOOSE w \in GenericWords : MatchAt(s, p, w)),
                    SpaceChars \cup {","}) + 1)
    ELSE NoGroup

\* re.search of one of the four patterns: group 1 of the leftmost match, cleaned
\* as lines 179-180 clean it; the empty string when nothing matches
GroupText(s, grp) == clean_party_name(Strip(SubSeq(s, grp.g, grp.e)))

SearchGroup(s, GroupAt(_, _)) ==
    IF \E p \in 1..Len(s) : GroupAt(s, p).e # 0
    THEN GroupText(s, GroupAt(s, MinOrZero({p \in 1..Len(s) : GroupAt(s, p).e # 0})))
    ELSE <<>>

\* the skip_words of pattern 5
line_skip_words ==
    { <<"D", "E", "P", "O", "S", "I", "T">>, <<"C", "A", "S", "H">>, <<"U", "P", "I">>, <<"C", "R">>, <<"D", "R">>, <<"W", "D", "L">>, <<"A", "T", "M">>, <<"D", "E", "P">>, <<"S", "B">>,
      <<"C", "H", "A", "R", "G", "E", "S">>, <<"F", "E", "E">>, <<"G", "S", "T">>, <<"C", "A", "R", "D">>, <<"A", "M", "C">>, <<"I", "N", "T", "E", "R", "E", "S", "T">>, <<"C", "A", "S", "A">>,
      <<"C", "A", "P", "I", "T", "A", "L", "I", "Z", "E", "D">>, <<"N", "A", "C", "H">>, <<"T", "R", "A", "N", "S", "F", "E", "R">>, <<"P", "A", "Y", "M", "E", "N", "T">>, <<"R", "E", "V", "E", "R", "S", "A", "L">> }

\* re.match(r'^\d+\.\d+$', w)
IsDecimal(w, d) ==
    /\ d >= 1
    /\ d + 2 <= Len(w)
    /\ w[d + 1] = "."
    /\ \A j \in (d + 2)..Len(w) : w[j] \in Digits

\* lines 216-220: the word is meaningful
IsMeaningful(w_clean) ==
    /\ Len(w_clean) > 2
    /\ Upper(w_clean) \notin line_skip_words
    /\ ~IsDigitStr(w_clean)
    /\ ~IsDecimal(w_clean, RunEnd(w_clean, 1, Digits))

\* lines 209-225: the first four meaningful words, or UNKNOWN
LastWords(meaningful) ==
    IF meaningful # <<>> THEN Join(Take(meaningful, 4)) ELSE <<"U", "N", "K", "N", "O", "W", "N">>

StripWord(w) == StripChars(w, {".", ",", "-", "/"})

MeaningfulOf(words) ==
    SelectSeq([k \in 1..Len(words) |-> StripWord(words[k])], IsMeaningful)

\* lines 177-225 on the upper-cased line: the first pattern whose party has two
\* characters or more, else pattern 5
PartyOfUpper(desc, first, second, third, fourth) ==
    IF Len(first) >= 2 THEN first
    ELSE IF Len(second) >= 2 THEN second
    ELSE IF Len(third) >= 2 THEN third
    ELSE IF Len(fourth) >= 2 THEN fourth
    ELSE LastWords(MeaningfulOf(Split(desc)))

PartyOf(desc) ==
    PartyOfUpper(desc, SearchGroup(desc, UpiRefGroupAt), SearchGroup(desc, UpiGroupAt),
                 SearchGroup(desc, WdlGroupAt), SearchGroup(desc, GenericGroupAt))

\* PDFProcessor._extract_party_from_line(line)
extract_party_from_line(line) == PartyOf(Upper(line))

\* re.sub(r'\d{2}-[A-Za-z]{3}-', '', s)
RemoveDates(s) ==
    KeepAt(s, {q \in 1..Len(s) : ~\E p \in (q - 6)..q : DateAt(s, p)})

\* s.replace(lit, ''), lit not empty
RECURSIVE RemoveLiteral(_, _)
RECURSIVE RemoveLiteralAt(_, _, _)
RemoveLiteralAt(s, lit, first) ==
    IF first = 0 THEN s
    ELSE Take(s, first - 1) \o RemoveLiteral(Drop(s, first - 1 + Len(lit)), lit)

RemoveLiteral(s, lit) ==
    RemoveLiteralAt(s, lit, MinOrZero({i \in 1..Len(s) : MatchAt(s, i, lit)}))

\* lines 237-239: every amount found in desc is replaced away, one after another
RECURSIVE RemoveEach(_, _, _)
RemoveEach(desc, amounts, k) ==
    IF k > Len(amounts) THEN desc
    ELSE RemoveEach(RemoveLiteral(desc, amounts[k]), amounts, k + 1)

RemoveAmounts(desc) == RemoveEach(desc, FindAmounts(desc, 1), 1)

\* PDFProcessor._clean_description(line)
clean_description(line) ==
    Strip(StripChars(Strip(CollapseSpace(RemoveAmounts(RemoveDates(RemoveDates(line))))),
                     SpaceChars \cup {",", "-"}))

\* lines 122-123: day/month/year of the date match at p
DateStr(line, p, year) ==
    SubSeq(line, p, p + 1) \o <<"/">> \o MonthOf(SubSeq(line, p + 3, p + 5))
        \o <<"/">> \o year

\* lines 152-160
Txn(date_str, desc, parsed_amounts, party) ==
    [date |-> date_str, description |-> desc, credit |-> parsed_amounts[2],
     debit |-> parsed_amounts[1], balance |-> parsed_amounts[3],
     detected_party |-> party, party |-> party]

\* lines 146-161: the transaction of a line whose party has two characters or more
TxnsOfParty(line, date_str, parsed_amounts, party) ==
    IF party # <<>> /\ Len(party) >= 2
    THEN << Txn(date_str, clean_description(line), parsed_amounts, party) >>
    ELSE <<>>

\* lines 137-161: the transactions of a dated line whose year is known, the
\* amounts being the first three found
TxnsOf(line, date_str, parsed_amounts) ==
    IF Len(parsed_amounts) >= 3 /\ WithinLimit(parsed_amounts[3])
    THEN TxnsOfParty(line, date_str, parsed_amounts, extract_party_from_line(line))
    ELSE <<>>

\* the loop of lines 90-166 from the 1-based index i on
RECURSIVE ParseLines(_, _, _)
RECURSIVE ParseLine(_, _, _, _)
RECURSIVE ParseDated(_, _, _, _, _, _)
ParseDated(lines, i, line, p, year, transactions) ==
    IF year.isNone THEN ParseLines(lines, i + 1, transactions)
    ELSE ParseLines(lines, i + 2,
             transactions \o TxnsOf(line, DateStr(line, p, year.str), ParsedAmounts(line)))

ParseLine(lines, i, line, transactions) ==
    IF line = <<>> THEN ParseLines(lines, i + 1, transactions)
    ELSE IF is_header_line(line) THEN ParseLines(lines, i + 1, transactions)
    ELSE IF DateMatch(line) = 0 THEN ParseLines(lines, i + 1, transactions)
    ELSE ParseDated(lines, i, line, DateMatch(line), YearAfter(lines, i), transactions)

ParseLines(lines, i, transactions) ==
    IF i > Len(lines) THEN transactions
    ELSE ParseLine(lines, i, Strip(lines[i]), transactions)

\* PDFProcessor._parse_text(text)
parse_text(text) == ParseLines(SplitLines(text), 1, <<>>)

-----------------------------------------------------------------------------
(* Specification of the free-text parser: _parse_text on one page text *)

MaxLines == 2

TextLines ==
    { <<"0", "5", "-", "M", "a", "r", "-", "2", "4", " ", "A", "T", "M", " ", "W", "D", "L", " ", "2", ",", "0", "0", "0", ".", "0", "0", " ", "0", ".", "0", "0", " ", "8", ",", "5", "0", "0", ".", "0", "0">>,
      <<"0", "6", "-", "M", "a", "r", "-", " ", "U", "P", "I", "/", "C", "R", "/", "1", "2", "3", "/", "R", "A", "V", "I", " ", "0", ".", "0", "0", " ", "5", "0", "0", ".", "0", "0", " ", "9", ",", "0", "0", "0", ".", "0", "0">>,
      <<"0", "7", "-", "A", "p", "r", "-", " ", "C", "A", "S", "H", " ", "D", "E", "P", "O", "S", "I", "T", " ", "1", ".", "0", "0", " ", "2", ".", "0", "0", " ", "3", ".", "0", "0", " ", "4", ".", "0", "0">>,
      <<"0", "8", "-", "X", "y", "z", "-", " ", "N", "E", "F", "T", " ", "1", "0", ".", "0", "0", " ", "2", "0", ".", "0", "0">>,
      <<"0", "9", "-", "M", "a", "y", "-", " ", "B", "A", "L", "A", "N", "C", "E", " ", "1", ".", "0", "0", " ", "2", ".", "0", "0", " ", "3", ".", "0", "0">>,
      <<"1", "0", "-", "J", "u", "n", "-", " ", "F", "E", "E", " ", "1", ".", "0", "0", " ", "2", ".", "0", "0", " ", "1", "0", "0", ",", "0", "0", "0", ",", "0", "0", "0", ".", "0", "1">>,
      <<"2", "0", "2", "4", " ", "2", "0", "2", "4">>,
      <<"2", "0", "2", "5", " ", "S", "E", "L", "F">>,
      <<" ">>,
      <<"T", "O", "T", "A", "L", " ", "1", ".", "0", "0", " ", "2", ".", "0", "0", " ", "3", ".", "0", "0">> }

\* '\n'.join(lines)
RECURSIVE JoinLines(_)
JoinLines(lines) ==
    IF lines = <<>> THEN <<>>
    ELSE IF Len(lines) = 1 THEN lines[1]
    ELSE lines[1] \o <<"\n">> \o JoinLines(Tail(lines))

Texts == {JoinLines(lines) : lines \in SeqsUpTo(TextLines, MaxLines)}

TextDoc(text) == [kind |-> "text", text |-> text]

InitText ==
    /\ party_cache = EmptyCache
    /\ calls = <<>>
    /\ df = <<>>
    /\ outputs = <<>>
    /\ txnIn = IdleTxn
    /\ catOut = NoneVal
    /\ doc \in {TextDoc(text) : text \in Texts}
    /\ docResult = NoResult

\* PDFProcessor()._parse_text(text)
ParseText ==
    /\ doc.kind = "text"
    /\ docResult = NoResult
    /\ docResult' = [outcome |-> "parsed", transactions |-> parse_text(doc.text)]
    /\ UNCHANGED <<party_cache, calls, df, outputs, txnIn, catOut, doc>>

NextText == ParseText

SpecText == InitText /\ [][NextText]_vars

-----------------------------------------------------------------------------
(* Claim about the free-text parser, on SpecText *)

\* the amounts of a line that pass the balance sanity bound
PlausibleAmounts(line) == SelectSeq(ParsedAmounts(line), WithinLimit)

\* a line that is neither blank nor a header line, with a date match and at
\* least three plausible amounts
Qualifies(line) ==
    /\ line # <<>>
    /\ ~is_header_line(line)
    /\ DateMatch(line) # 0
    /\ Len(PlausibleAmounts(line)) >= 3

\* the indices of the qualifying lines, in order
QualifyingLines(lines) ==
    KeepAt(Positions(lines), {i \in 1..Len(lines) : Qualifies(Strip(lines[i]))})

\* (debit, credit, balance) of txn are the last three of amounts
HasLastThree(txn, amounts) ==
    /\ txn.debit = amounts[Len(amounts) - 2]
    /\ txn.credit = amounts[Len(amounts) - 1]
    /\ txn.balance = amounts[Len(amounts)]

OneTxnPerLine(transactions, lines, qualifying) ==
    /\ Len(transactions) = Len(qualifying)
    /\ \A k \in 1..Len(qualifying) :
          HasLastThree(transactions[k], PlausibleAmounts(Strip(lines[qualifying[k]])))

\* C13: every line of the text with a date match and at least three plausible
\* amounts yields exactly one transaction, whose debit, credit and balance are the
\* last three amounts of the line in that order; so the text made of the one line
\* "05-Mar-24 ATM WDL 2,000.00 0.00 8,500.00" yields one transaction with debit
\* 2000.00 and balance 8500.00
C13_DatedLineYieldsLastThree ==
    docResult.outcome = "parsed" =>
        OneTxnPerLine(docResult.transactions, SplitLines(doc.text),
                      QualifyingLines(SplitLines(doc.text)))

=============================================================================
